---- MODULE Spec2Model ----
(***************************************************************************)
(* Model of the spreadsheet import pipeline, ExcelService.parseFile        *)
(* (src/services/excelService.ts), and of the classification oracle it     *)
(* awaits, GeminiService.mapImportCategories (src/services/geminiService).  *)
(*                                                                         *)
(* Strings are sequences of one-character strings, so that trim,           *)
(* toLowerCase, includes, toTitleCase and parseFloat are computed as the   *)
(* code computes them.  Category and expense ids are opaque TLA+ strings.  *)
(* The colour of a minted category is not modelled.  Cell numerals are     *)
(* integers (no decimal point, no exponent); a cell is text or a number.   *)
(***************************************************************************)
EXTENDS Integers, Sequences, FiniteSets, TLC

(***************************************************************************)
(* JavaScript string primitives                                            *)
(***************************************************************************)
UpperChars == <<"A","B","C","D","E","F","G","H","I","J","K","L","M",
                "N","O","P","Q","R","S","T","U","V","W","X","Y","Z">>
LowerChars == <<"a","b","c","d","e","f","g","h","i","j","k","l","m",
                "n","o","p","q","r","s","t","u","v","w","x","y","z">>
DigitChars == <<"0","1","2","3","4","5","6","7","8","9">>

\* the characters of the model's strings
OtherChars == {" ", ",", "-", "+", "/", "(", ")", "_", ".", ":"}
Chars == {UpperChars[i] : i \in 1..26} \cup {LowerChars[i] : i \in 1..26}
         \cup {DigitChars[i] : i \in 1..10} \cup OtherChars

IsUpper(c) == \E i \in 1..26 : UpperChars[i] = c
IsLower(c) == \E i \in 1..26 : LowerChars[i] = c
DigitSet == {DigitChars[i] : i \in 1..10}
IsDigit(c) == c \in DigitSet
DigitValMap == [c \in DigitSet |-> (CHOOSE i \in 1..10 : DigitChars[i] = c) - 1]
DigitVal(c) == DigitValMap[c]
\* \s of the regular expressions and of String.prototype.trim
IsSpace(c) == c = " "
\* \w of the regular expressions: [A-Za-z0-9_]
WordChars == {c \in Chars : IsUpper(c) \/ IsLower(c) \/ IsDigit(c) \/ c = "_"}
IsWordChar(c) == c \in WordChars

LowerMap == [c \in Chars |->
               IF IsUpper(c) THEN LowerChars[CHOOSE i \in 1..26 : UpperChars[i] = c] ELSE c]
UpperMap == [c \in Chars |->
               IF IsLower(c) THEN UpperChars[CHOOSE i \in 1..26 : LowerChars[i] = c] ELSE c]
LowerChar(c) == LowerMap[c]
UpperChar(c) == UpperMap[c]

\* String.prototype.toLowerCase
toLowerCase(s) == [i \in 1..Len(s) |-> LowerChar(s[i])]

\* String.prototype.trim
RECURSIVE trimStart(_)
trimStart(s) == IF s # <<>> /\ IsSpace(Head(s)) THEN trimStart(Tail(s)) ELSE s
RECURSIVE trimEnd(_)
trimEnd(s) == IF s # <<>> /\ IsSpace(s[Len(s)]) THEN trimEnd(SubSeq(s, 1, Len(s) - 1)) ELSE s
trim(s) == trimEnd(trimStart(s))

\* String.prototype.includes
includes(s, sub) ==
  \E i \in 1..(Len(s) - Len(sub) + 1) : SubSeq(s, i, i + Len(sub) - 1) = sub

\* String.prototype.replace(/,/g, '')
RECURSIVE stripCommas(_)
stripCommas(s) ==
  IF s = <<>> THEN <<>>
  ELSE IF Head(s) = "," THEN stripCommas(Tail(s))
  ELSE <<Head(s)>> \o stripCommas(Tail(s))

\* toTitleCase: every match of /\w\S*/g becomes its first character upper-cased
\* followed by the rest lower-cased; text outside the matches is kept.
RECURSIVE titleFrom(_, _)
titleFrom(s, inWord) ==
  IF s = <<>> THEN <<>>
  ELSE LET c == Head(s) IN
       IF inWord
       THEN IF IsSpace(c) THEN <<c>> \o titleFrom(Tail(s), FALSE)
            ELSE <<LowerChar(c)>> \o titleFrom(Tail(s), TRUE)
       ELSE IF IsWordChar(c) THEN <<UpperChar(c)>> \o titleFrom(Tail(s), TRUE)
            ELSE <<c>> \o titleFrom(Tail(s), FALSE)
toTitleCase(str) == titleFrom(str, FALSE)

\* String(n) for an integer n
RECURSIVE natToStr(_)
natToStr(n) == IF n < 10 THEN <<DigitChars[n + 1]>>
               ELSE natToStr(n \div 10) \o <<DigitChars[(n % 10) + 1]>>
numToStr(n) == IF n < 0 THEN <<"-">> \o natToStr(0 - n) ELSE natToStr(n)

\* parseFloat on a string: leading white space, an optional sign, then the
\* longest run of digits; NaN when there is no digit there.
RECURSIVE digitsPrefix(_)
digitsPrefix(s) == IF s # <<>> /\ IsDigit(Head(s)) THEN <<Head(s)>> \o digitsPrefix(Tail(s)) ELSE <<>>
RECURSIVE digitsValue(_, _)
digitsValue(ds, acc) == IF ds = <<>> THEN acc ELSE digitsValue(Tail(ds), acc * 10 + DigitVal(Head(ds)))
NaN == [nan |-> TRUE, v |-> 0]
Num(n) == [nan |-> FALSE, v |-> n]
parseFloatStr(s) ==
  LET t    == trimStart(s)
      neg  == t # <<>> /\ Head(t) = "-"
      sgn  == t # <<>> /\ (Head(t) = "-" \/ Head(t) = "+")
      body == IF sgn THEN Tail(t) ELSE t
      ds   == digitsPrefix(body)
  IN IF ds = <<>> THEN NaN
     ELSE Num(IF neg THEN 0 - digitsValue(ds, 0) ELSE digitsValue(ds, 0))
(***************************************************************************)
(* Words and literals of the source                                        *)
(***************************************************************************)
\* words of the source's patterns, alias lists and literals
w_amount == <<"a","m","o","u","n","t">>
w_amt == <<"a","m","t">>
w_price == <<"p","r","i","c","e">>
w_cost == <<"c","o","s","t">>
w_debit == <<"d","e","b","i","t">>
w_spending == <<"s","p","e","n","d","i","n","g">>
w_value == <<"v","a","l","u","e">>
w_date == <<"d","a","t","e">>
w_dt == <<"d","t">>
w_when == <<"w","h","e","n">>
w_day == <<"d","a","y">>
w_time == <<"t","i","m","e">>
w_total == <<"t","o","t","a","l">>
w_final == <<"f","i","n","a","l">>
w_subtotal == <<"s","u","b","t","o","t","a","l">>
w_sum == <<"s","u","m">>
w_notes == <<"n","o","t","e","s">>
w_comments == <<"c","o","m","m","e","n","t","s">>
w_description == <<"d","e","s","c","r","i","p","t","i","o","n">>
w_category == <<"c","a","t","e","g","o","r","y">>
w_cat == <<"c","a","t">>
w_type == <<"t","y","p","e">>
w_expense_type == <<"e","x","p","e","n","s","e"," ","t","y","p","e">>
w_desc == <<"d","e","s","c">>
w_details == <<"d","e","t","a","i","l","s">>
w_particulars == <<"p","a","r","t","i","c","u","l","a","r","s">>
w_narration == <<"n","a","r","r","a","t","i","o","n">>
w_remarks == <<"r","e","m","a","r","k","s">>
w_comment == <<"c","o","m","m","e","n","t">>
w_credit == <<"c","r","e","d","i","t">>
w_dr == <<"d","r">>
w_cr == <<"c","r">>
w_withdrawal == <<"w","i","t","h","d","r","a","w","a","l">>
w_deposit == <<"d","e","p","o","s","i","t">>
w_transfer == <<"t","r","a","n","s","f","e","r">>
w_upi == <<"u","p","i">>
w_pos == <<"p","o","s">>
w_atm == <<"a","t","m">>
w_card == <<"c","a","r","d">>
w_imps == <<"i","m","p","s">>
w_neft == <<"n","e","f","t">>
w_rtgs == <<"r","t","g","s">>
w_mbk == <<"m","b","k">>
w_mobile == <<"m","o","b","i","l","e">>
w_net == <<"n","e","t">>
w_banking == <<"b","a","n","k","i","n","g">>
w_txn == <<"t","x","n">>
w_transaction == <<"t","r","a","n","s","a","c","t","i","o","n">>
w_expense == <<"e","x","p","e","n","s","e">>
w_payment == <<"p","a","y","m","e","n","t">>

\* string literals of the source
l_Imported_Expense == <<"I","m","p","o","r","t","e","d"," ","E","x","p","e","n","s","e">>
l_Imported_Misc == <<"I","m","p","o","r","t","e","d"," ","M","i","s","c">>
l_Others == <<"O","t","h","e","r","s">>
l__Expense == <<" ","E","x","p","e","n","s","e">>
l_Imported_via_Matrix == <<"I","m","p","o","r","t","e","d"," ","v","i","a"," ","M","a","t","r","i","x">>
l_open == <<" ","(">>
l_close == <<")">>


\* /^(amount|amt|price|cost|debit|spending|value)$/i
AmountHeaderWords == {w_amount, w_amt, w_price, w_cost, w_debit, w_spending, w_value}
\* /^(date|dt|when|day)$/i
DateHeaderWords == {w_date, w_dt, w_when, w_day}
\* the fixed part of ignoredHeaders
IgnoredHeaderWords == {w_total, w_final, w_subtotal, w_sum, w_notes, w_comments, w_description}
\* genericTerms
GenericTerms == {w_debit, w_credit, w_dr, w_cr, w_withdrawal, w_deposit, w_transfer, w_upi,
                 w_pos, w_atm, w_card, w_imps, w_neft, w_rtgs, w_mbk, w_mobile, w_net,
                 w_banking, w_txn, w_transaction, w_expense, w_payment}
\* the alias lists handed to getVal
CategoryKeys == <<w_category, w_cat, w_type, w_expense_type>>
DescriptionKeys == <<w_description, w_desc, w_details, w_particulars, w_narration>>
AmountKeys == <<w_amount, w_amt, w_cost, w_price, w_debit, w_spending, w_value>>
DateKeys == <<w_date, w_dt, w_time, w_when>>
NotesKeys == <<w_notes, w_remarks, w_comment>>
\* the batch cap of the oracle call
BatchLimit == 1000

(***************************************************************************)
(* Cell values.  A cell is a string or a number; Undefined stands for      *)
(* null and undefined (a missing property, getVal's null).                 *)
(***************************************************************************)
StrCell(s) == [t |-> "str", s |-> s, n |-> 0]
NumCell(n) == [t |-> "num", s |-> <<>>, n |-> n]
Undefined == [t |-> "undef", s |-> <<>>, n |-> 0]

\* JavaScript truthiness of a cell value
Truthy(c) == \/ c.t = "str" /\ c.s # <<>>
             \/ c.t = "num" /\ c.n # 0
\* String(value)
String(c) == IF c.t = "num" THEN numToStr(c.n) ELSE c.s
\* parseFloat(value): the value is converted to a string first
parseFloat(c) == IF c.t = "num" THEN Num(c.n)
                 ELSE IF c.t = "str" THEN parseFloatStr(c.s) ELSE NaN

\* Array.prototype.find as an index: the first i whose flag holds, or 0;
\* flags[i] is the callback's result for the i-th element
FirstIndex(flags) ==
  IF \E i \in 1..Len(flags) : flags[i]
  THEN CHOOSE i \in 1..Len(flags) : flags[i] /\ \A j \in 1..(i - 1) : ~flags[j]
  ELSE 0

\* row[key]: the cell of the header that is exactly key, undefined without one
RowGet(headers, row, key) ==
  LET i == FirstIndex([i \in 1..Len(headers) |-> headers[i] = key])
  IN IF i = 0 THEN Undefined ELSE row[i]

\* getVal(row, keys): for each alias in order, the first row key equal to it
\* ignoring case; the first alias that has such a key decides, whatever the
\* cell holds.
RECURSIVE getVal(_, _, _)
getVal(headers, row, keys) ==
  IF keys = <<>> THEN Undefined
  ELSE LET i == FirstIndex([j \in 1..Len(headers) |-> toLowerCase(headers[j]) = toLowerCase(Head(keys))])
       IN IF i # 0 /\ headers[i] # <<>> THEN row[i]
          ELSE getVal(headers, row, Tail(keys))

(***************************************************************************)
(* Dates (parseDate, excelService.ts 289-310).  A parsed date is the text  *)
(* YYYY-MM-DD, or today's date, or what the engine's own parser makes of   *)
(* a text that is neither day-first nor ISO (left open).                   *)
(***************************************************************************)
DateText(s) == [kind |-> "date", s |-> s]
Today == [kind |-> "today", s |-> <<>>]
EngineParsed(s) == [kind |-> "engine", s |-> s]

IsDateSep(c) == c = "-" \/ c = "/"
AllDigits(s) == \A i \in 1..Len(s) : IsDigit(s[i])

\* /^\d{1,2}[-/]\d{1,2}[-/]\d{4}$/ : the three digit groups, or <<>> without
\* a match
dayFirstParts(s) ==
  LET a == digitsPrefix(s)
      r1 == SubSeq(s, Len(a) + 2, Len(s))
      b == digitsPrefix(r1)
      c == SubSeq(r1, Len(b) + 2, Len(r1))
  IN IF /\ Len(a) \in {1, 2} /\ Len(s) > Len(a) /\ IsDateSep(s[Len(a) + 1])
        /\ Len(b) \in {1, 2} /\ Len(r1) > Len(b) /\ IsDateSep(r1[Len(b) + 1])
        /\ Len(c) = 4 /\ AllDigits(c)
     THEN <<a, b, c>> ELSE <<>>

isLeapYear(y) == (y % 4 = 0 /\ y % 100 # 0) \/ y % 400 = 0
daysInMonth(y, m) ==
  IF m = 2 THEN (IF isLeapYear(y) THEN 29 ELSE 28)
  ELSE IF m \in {4, 6, 9, 11} THEN 30 ELSE 31

\* the calendar date of day d of month m (1..12) of year y, d of any size
RECURSIVE normalizeDay(_, _, _)
normalizeDay(y, m, d) ==
  IF d > daysInMonth(y, m)
  THEN normalizeDay(IF m = 12 THEN y + 1 ELSE y, IF m = 12 THEN 1 ELSE m + 1, d - daysInMonth(y, m))
  ELSE IF d < 1
  THEN LET py == IF m = 1 THEN y - 1 ELSE y
           pm == IF m = 1 THEN 12 ELSE m - 1
       IN normalizeDay(py, pm, d + daysInMonth(py, pm))
  ELSE <<y, m, d>>

\* new Date(year, monthIndex, day): a year of 0..99 is taken as 1900 + year,
\* and a month index or a day out of range carries over
fullYear(year) == IF year >= 0 /\ year <= 99 THEN 1900 + year ELSE year
newDate(year, monthIndex, day) ==
  LET y == fullYear(year) + (IF monthIndex < 0 THEN 0 - 1 ELSE monthIndex \div 12)
      m == (IF monthIndex < 0 THEN monthIndex + 12 ELSE monthIndex % 12) + 1
  IN normalizeDay(y, m, day)

\* n in at least w digits
RECURSIVE padNat(_, _)
padNat(n, w) == IF Len(natToStr(n)) >= w THEN natToStr(n) ELSE <<"0">> \o padNat(n, w - 1)
\* toISOString().split('T')[0] of a date whose year is not negative
isoDate(ymd) ==
  (IF ymd[1] > 9999 THEN <<"+">> \o padNat(ymd[1], 6) ELSE padNat(ymd[1], 4))
  \o <<"-">> \o padNat(ymd[2], 2) \o <<"-">> \o padNat(ymd[3], 2)

\* a text YYYY-MM-DD that names a day of the calendar: new Date(text) is that
\* day at 00:00 UTC
isIsoDay(s) ==
  /\ Len(s) = 10 /\ s[5] = "-" /\ s[8] = "-"
  /\ AllDigits(SubSeq(s, 1, 4)) /\ AllDigits(SubSeq(s, 6, 7)) /\ AllDigits(SubSeq(s, 9, 10))
  /\ LET y == digitsValue(SubSeq(s, 1, 4), 0)
         m == digitsValue(SubSeq(s, 6, 7), 0)
         d == digitsValue(SubSeq(s, 9, 10), 0)
     IN m \in 1..12 /\ d \in 1..daysInMonth(y, m)

\* a text without any digit: new Date(text) is an Invalid Date in every engine
noDigit(s) == \A i \in 1..Len(s) : ~IsDigit(s[i])

\* parseDate without its defaults: whatever new Date(val) gives
parseDate_noDefault(val) == EngineParsed(String(val))
\* parseDate(val).  The local midnight of new Date(y, m, d) less the time zone
\* offset is that calendar day at 00:00 UTC, so the zone does not show.
parseDate(val) ==
  IF ~Truthy(val) THEN Today
  ELSE IF val.t = "str" /\ dayFirstParts(val.s) # <<>>
  THEN LET parts == dayFirstParts(val.s)
           day == digitsValue(parts[1], 0)
           month == digitsValue(parts[2], 0) - 1
           year == digitsValue(parts[3], 0)
       IN DateText(isoDate(newDate(year, month, day)))
  ELSE IF val.t = "str" /\ isIsoDay(val.s) THEN DateText(val.s)
  ELSE IF val.t = "str" /\ noDigit(val.s) THEN Today
  ELSE EngineParsed(String(val))

(***************************************************************************)
(* 1. Headers and mode (excelService.ts 49-52)                             *)
(***************************************************************************)
IsAmountHeader(h) == toLowerCase(h) \in AmountHeaderWords
IsDateHeader(h) == toLowerCase(h) \in DateHeaderWords
amountKeyIndex(headers) == FirstIndex([i \in 1..Len(headers) |-> IsAmountHeader(headers[i])])
dateKeyIndex(headers) == FirstIndex([i \in 1..Len(headers) |-> IsDateHeader(headers[i])])
isMatrixModeOf_two(headers) ==
  dateKeyIndex(headers) # 0 /\ amountKeyIndex(headers) = 0 /\ Len(headers) >= 2
isMatrixModeOf(headers) ==
  dateKeyIndex(headers) # 0 /\ amountKeyIndex(headers) = 0 /\ Len(headers) > 2

(***************************************************************************)
(* 2. Unique raw categories (excelService.ts 54-107).  A Set keeps         *)
(* insertion order, so it is a sequence without repetitions.               *)
(***************************************************************************)
\* the kept elements among seq[lo..hi], in order
RECURSIVE filterRange(_, _, _, _)
filterRange(seq, keep, lo, hi) ==
  IF lo > hi THEN <<>>
  ELSE IF lo = hi THEN (IF keep[lo] THEN <<seq[lo]>> ELSE <<>>)
  ELSE LET mid == (lo + hi) \div 2
       IN filterRange(seq, keep, lo, mid) \o filterRange(seq, keep, mid + 1, hi)

\* Array.prototype.filter; keep[i] is the callback's result for seq[i]
FilterSeq(seq, keep) == filterRange(seq, keep, 1, Len(seq))

\* the Set after set.add(x) for every x of seq in order: the first occurrence
\* of every value, in order
SetOf(seq) ==
  FilterSeq(seq, [i \in 1..Len(seq) |-> \A j \in 1..(i - 1) : seq[j] # seq[i]])

IsMatrixCategoryHeader_listOnly(headers, h) ==
  LET lowerH == trim(toLowerCase(h))
      ignoredHeaders == IgnoredHeaderWords \cup {toLowerCase(headers[dateKeyIndex(headers)])}
  IN lowerH # <<>> /\ lowerH \notin ignoredHeaders

\* the matrix header filter of lines 60-66
IsMatrixCategoryHeader(headers, h) ==
  LET lowerH == trim(toLowerCase(h))
      ignoredHeaders == IgnoredHeaderWords \cup {toLowerCase(headers[dateKeyIndex(headers)])}
  IN lowerH # <<>> /\ lowerH \notin ignoredHeaders /\ ~includes(lowerH, w_total)

\* headers.forEach(h => { if (...) rawCategoriesSet.add(h.trim()) })
matrixHeaderSet(headers) ==
  LET kept == FilterSeq(headers, [i \in 1..Len(headers) |-> IsMatrixCategoryHeader(headers, headers[i])])
  IN SetOf([i \in 1..Len(kept) |-> trim(kept[i])])

\* rawData.forEach(row => { val = getVal(row, keys); if (val) set.add(String(val).trim()) })
columnValueSet(headers, rows, keys) ==
  LET vals == [r \in 1..Len(rows) |-> getVal(headers, rows[r], keys)]
      kept == FilterSeq(vals, [r \in 1..Len(rows) |-> Truthy(vals[r])])
  IN SetOf([i \in 1..Len(kept) |-> trim(String(kept[i]))])

shouldUseDescriptionOf_half(headers, rows) ==
  LET uniqueItems == columnValueSet(headers, rows, CategoryKeys)
      totalItems == Len(uniqueItems)
      genericCount == Len(FilterSeq(uniqueItems, [i \in 1..Len(uniqueItems) |-> toLowerCase(uniqueItems[i]) \in GenericTerms]))
  IN IF totalItems = 0 THEN TRUE
     ELSE (2 * genericCount >= totalItems) \/ (totalItems < 3 /\ Len(rows) > 5)

\* INTELLIGENT SOURCE DETECTION, lines 79-95
shouldUseDescriptionOf(headers, rows) ==
  LET uniqueItems == columnValueSet(headers, rows, CategoryKeys)
      totalItems == Len(uniqueItems)
      genericCount == Len(FilterSeq(uniqueItems, [i \in 1..Len(uniqueItems) |-> toLowerCase(uniqueItems[i]) \in GenericTerms]))
  IN IF totalItems = 0 THEN TRUE
     ELSE (2 * genericCount > totalItems) \/ (totalItems < 3 /\ Len(rows) > 5)

usedSourceTypeOf(headers, rows) ==
  IF isMatrixModeOf(headers) THEN "matrix"
  ELSE IF shouldUseDescriptionOf(headers, rows) THEN "description"
  ELSE "explicit_category"

rawCategoriesSetOf(headers, rows) ==
  IF isMatrixModeOf(headers) THEN matrixHeaderSet(headers)
  ELSE IF shouldUseDescriptionOf(headers, rows)
       THEN columnValueSet(headers, rows, DescriptionKeys)
       ELSE columnValueSet(headers, rows, CategoryKeys)

\* Array.from(rawCategoriesSet).filter(s => s && s.length > 1)
uniqueRawCategoriesOf(headers, rows) ==
  LET all == rawCategoriesSetOf(headers, rows)
  IN FilterSeq(all, [i \in 1..Len(all) |-> all[i] # <<>> /\ Len(all[i]) > 1])
(***************************************************************************)
(* Ids.  uuidv4() is taken to return a value never returned before and     *)
(* never equal to an id that already exists: the n-th call returns         *)
(* UuidPool[n].                                                            *)
(***************************************************************************)
UuidPool == <<"u1","u2","u3","u4","u5","u6","u7","u8","u9","u10","u11","u12","u13","u14","u15","u16","u17","u18","u19","u20","u21","u22","u23","u24","u25","u26","u27","u28","u29","u30","u31","u32","u33","u34","u35","u36","u37","u38","u39","u40","u41","u42","u43","u44","u45","u46","u47","u48">>
uuidv4(n) == UuidPool[n + 1]

(***************************************************************************)
(* 3. The classification oracle (geminiService.ts 111-160) and the         *)
(* resolver (excelService.ts 122-159)                                      *)
(***************************************************************************)
\* A JSON object as a function from keys to values; the empty object is <<>>.
EmptyObject == [kind |-> "object", entries |-> <<>>]
JsonObject(m) == [kind |-> "object", entries |-> m]
JsonNull == [kind |-> "null", entries |-> <<>>]

\* What mapImportCategories returns for each thing the remote call can do:
\* no API key, a rejected request and a text JSON.parse rejects give {};
\* an empty text gives JSON.parse('{}'); any other text gives JSON.parse(text),
\* which is the object sent, or null, or a value without own string keys.
mapImportCategories(outcome) ==
  CASE outcome.kind = "no_api_key" -> EmptyObject
    [] outcome.kind = "request_fails" -> EmptyObject
    [] outcome.kind = "invalid_json" -> EmptyObject
    [] outcome.kind = "empty_text" -> EmptyObject
    [] outcome.kind = "json_scalar" -> EmptyObject
    [] outcome.kind = "json_null" -> JsonNull
    [] outcome.kind = "json_object" -> JsonObject(outcome.entries)

\* aiMapping[key]: undefined (here "", falsy as well) without such a key
Lookup(aiMapping, key) ==
  IF key \in DOMAIN aiMapping.entries THEN aiMapping.entries[key] ELSE ""

\* a || b || c on strings
Or3(a, b, c) == IF a # "" THEN a ELSE IF b # "" THEN b ELSE c

\* existingCategories.find(c => c.id === id) as an index
findById(existing, id) == FirstIndex([i \in 1..Len(existing) |-> existing[i].id = id])
findByLowerName_exact(existing, lowerRaw) == FirstIndex([i \in 1..Len(existing) |-> existing[i].name = lowerRaw])
\* existingCategories.find(c => c.name.toLowerCase() === lowerRaw) as an index
findByLowerName(existing, lowerRaw) == FirstIndex([i \in 1..Len(existing) |-> toLowerCase(existing[i].name) = lowerRaw])
\* newCategoriesCreatedMap as a sequence of [key, cat] in insertion order
mapIndex(created, key) == FirstIndex([i \in 1..Len(created) |-> created[i].key = key])

\* Case 1A (line 132): the mapped id is kept only if a category has it
isExistingId_unchecked(existing, mappedId) == TRUE
isExistingId(existing, mappedId) == findById(existing, mappedId) # 0

\* The mapped id of Priority 1 (line 128)
mappedIdOf(aiMapping, rawInput) ==
  LET cleanRaw == trim(rawInput)
      lowerRaw == toLowerCase(cleanRaw)
  IN Or3(Lookup(aiMapping, cleanRaw), Lookup(aiMapping, lowerRaw), Lookup(aiMapping, rawInput))

\* resolveCategory(rawInput) in a session that has created `created` and has
\* drawn `uuid` ids.  threw: reading a property of a null aiMapping throws.
resolveCategory(existing, aiMapping, created, uuid, rawInput) ==
  LET cleanRaw == trim(rawInput)
      lowerRaw == toLowerCase(cleanRaw)
      mappedId == mappedIdOf(aiMapping, rawInput)
      inMap == mapIndex(created, lowerRaw)
      strictMatch == findByLowerName(existing, lowerRaw)
      titled == toTitleCase(cleanRaw)
      newCat == [id |-> uuidv4(uuid),
                 name |-> IF titled # <<>> THEN titled ELSE l_Imported_Misc,
                 isCustom |-> TRUE]
      base == [raw |-> rawInput, threw |-> FALSE, created |-> created, uuid |-> uuid,
               originalName |-> <<>>]
  IN IF aiMapping.kind = "null"
     THEN [base EXCEPT !.threw = TRUE] @@ [id |-> "", isNew |-> FALSE, via |-> "throw"]
     ELSE IF mappedId # "" /\ mappedId # "NEW" /\ isExistingId(existing, mappedId)
     THEN [base EXCEPT !.originalName = cleanRaw] @@ [id |-> mappedId, isNew |-> FALSE, via |-> "oracle"]
     ELSE IF inMap # 0
     THEN base @@ [id |-> created[inMap].cat.id, isNew |-> TRUE, via |-> "session"]
     ELSE IF strictMatch # 0
     THEN base @@ [id |-> existing[strictMatch].id, isNew |-> FALSE, via |-> "strict"]
     ELSE [base EXCEPT !.created = Append(created, [key |-> lowerRaw, cat |-> newCat]),
                       !.uuid = uuid + 1]
          @@ [id |-> newCat.id, isNew |-> TRUE, via |-> "minted"]

\* what a resolve call leaves in the call log
LogEntry(r) == [raw |-> r.raw, id |-> r.id, isNew |-> r.isNew, via |-> r.via]
(***************************************************************************)
(* 4. Rows (excelService.ts 161-262).  A session is what the row loop      *)
(* threads from row to row: the expenses pushed, where each came from,     *)
(* the map of created categories, the ids drawn, the resolve calls made,   *)
(* and whether an exception left the loop.                                 *)
(***************************************************************************)
NewSession == [expenses |-> <<>>, origin |-> <<>>, created |-> <<>>, uuid |-> 0,
               log |-> <<>>, threw |-> FALSE]

\* the session after a resolve call that returned r
AfterResolve(s, r) ==
  [s EXCEPT !.created = r.created, !.uuid = r.uuid, !.log = Append(s.log, LogEntry(r)),
            !.threw = r.threw]

\* newExpenses.unshift in place of push
PushExpense_front(s, e, from) ==
  [s EXCEPT !.expenses = <<[id |-> uuidv4(s.uuid)] @@ e>> \o s.expenses,
            !.origin = <<from>> \o s.origin,
            !.uuid = s.uuid + 1]
\* newExpenses.push({id: uuidv4(), ...})
PushExpense(s, e, from) ==
  [s EXCEPT !.expenses = Append(s.expenses, [id |-> uuidv4(s.uuid)] @@ e),
            !.origin = Append(s.origin, from),
            !.uuid = s.uuid + 1]

\* the name of the existing category with this id, "" (undefined) without one
nameOfId(existing, id) ==
  LET i == findById(existing, id) IN IF i = 0 THEN <<>> ELSE existing[i].name

\* the amount of a matrix cell (line 173)
matrixAmount(val) ==
  IF val.t = "str" THEN parseFloatStr(stripCommas(val.s)) ELSE parseFloat(val)

\* the guard of line 175
matrixAmountOk_zero(amount) == ~amount.nan /\ amount.v >= 0
matrixAmountOk(amount) == ~amount.nan /\ amount.v > 0

\* what a cell that fails the guard of line 175 does to the session: nothing,
\* the header is resolved inside the guard only
skippedCell_resolved(existing, aiMapping, rawCatHeader, s) ==
  AfterResolve(s, resolveCategory(existing, aiMapping, s.created, s.uuid, rawCatHeader))
skippedCell(existing, aiMapping, rawCatHeader, s) == s

\* One category header of one matrix row (lines 171-197)
matrixCell(existing, aiMapping, headers, row, r, rawCatHeader, s) ==
  LET val == RowGet(headers, row, rawCatHeader)
      amount == matrixAmount(val)
  IN IF s.threw THEN s
     ELSE IF ~matrixAmountOk(amount) THEN skippedCell(existing, aiMapping, rawCatHeader, s)
     ELSE LET result == resolveCategory(existing, aiMapping, s.created, s.uuid, rawCatHeader)
              s1 == AfterResolve(s, result)
              mappedCatName == nameOfId(existing, result.id)
              desc == IF /\ ~result.isNew /\ result.originalName # <<>>
                         /\ mappedCatName # <<>>
                         /\ toLowerCase(mappedCatName) # toLowerCase(rawCatHeader)
                      THEN mappedCatName \o l__Expense \o l_open \o rawCatHeader \o l_close
                      ELSE toTitleCase(rawCatHeader) \o l__Expense
          IN IF result.threw THEN s1
             ELSE PushExpense(s1, [amount |-> amount.v, description |-> desc,
                                   categoryId |-> result.id,
                                   date |-> parseDate(row[dateKeyIndex(headers)]),
                                   notes |-> StrCell(l_Imported_via_Matrix)],
                              [row |-> r, header |-> rawCatHeader])

RECURSIVE matrixCells(_, _, _, _, _, _, _)
matrixCells(existing, aiMapping, headers, row, r, cats, s) ==
  IF cats = <<>> THEN s
  ELSE matrixCells(existing, aiMapping, headers, row, r, Tail(cats),
                   matrixCell(existing, aiMapping, headers, row, r, Head(cats), s))

\* the summary-row test of lines 164-167
matrixRowSkipped(headers, row) ==
  LET dateVal == row[dateKeyIndex(headers)]
      strDateVal == toLowerCase(String(dateVal))
  IN ~Truthy(dateVal) \/ includes(strDateVal, w_total) \/ includes(strDateVal, w_final)

\* One row of Matrix mode (lines 163-198)
matrixRow(existing, aiMapping, headers, cats, row, r, s) ==
  IF matrixRowSkipped(headers, row) THEN s
  ELSE matrixCells(existing, aiMapping, headers, row, r, cats, s)

\* Math.abs (line 209)
MathAbs_signed(n) == n
MathAbs(n) == IF n < 0 THEN 0 - n ELSE n

listAmount_signed(headers, row) ==
  LET amountStr == getVal(headers, row, AmountKeys)
      amount == parseFloat(amountStr)
  IN IF amount.nan \/ amount.v < 0 THEN NaN ELSE amount

\* the amount of a list row (lines 203-210); NaN stands for every case in
\* which the row is dropped before the amount is a number
listAmount(headers, row) ==
  LET amountStr == getVal(headers, row, AmountKeys)
      amount == parseFloat(amountStr)
  IN IF amountStr.t = "undef" \/ (amountStr.t = "str" /\ amountStr.s = <<>>) THEN NaN
     ELSE IF amount.nan THEN NaN
     ELSE Num(MathAbs(amount.v))

\* the category signal of a row (lines 216-226)
rawInputOf_category(usedSource, categoryVal, description) == categoryVal
rawInputOf(usedSource, categoryVal, description) ==
  IF usedSource = "explicit_category" THEN categoryVal ELSE description

\* One row of List mode (lines 201-261)
listRow(existing, aiMapping, headers, usedSource, row, r, s) ==
  LET descVal == getVal(headers, row, DescriptionKeys)
      description == IF Truthy(descVal) THEN descVal ELSE StrCell(l_Imported_Expense)
      amount == listAmount(headers, row)
      isImplicitCategory == usedSource # "explicit_category"
      rawInputForCategory == rawInputOf(usedSource, getVal(headers, row, CategoryKeys),
                                        description)
      dateStr == parseDate(getVal(headers, row, DateKeys))
      notesVal == getVal(headers, row, NotesKeys)
      notes == IF Truthy(notesVal) THEN notesVal ELSE StrCell(<<>>)
      from == [row |-> r, header |-> <<>>]
  IN IF s.threw \/ amount.nan \/ amount.v = 0 THEN s
     ELSE IF Truthy(rawInputForCategory)
     THEN LET result == resolveCategory(existing, aiMapping, s.created, s.uuid,
                                        String(rawInputForCategory))
              s1 == AfterResolve(s, result)
              mappedCatName == nameOfId(existing, result.id)
              appended == /\ ~isImplicitCategory /\ ~result.isNew
                          /\ result.originalName # <<>>
                          /\ mappedCatName # <<>>
                          /\ ~includes(toLowerCase(String(description)),
                                       toLowerCase(String(rawInputForCategory)))
              desc == IF appended
                      THEN String(description) \o l_open \o String(rawInputForCategory) \o l_close
                      ELSE String(description)
          IN IF result.threw THEN s1
             ELSE PushExpense(s1, [amount |-> amount.v, description |-> desc,
                                   categoryId |-> result.id, date |-> dateStr,
                                   notes |-> notes], from)
     ELSE LET others == FirstIndex([i \in 1..Len(existing) |-> existing[i].name = l_Others])
          IN IF others # 0
             THEN PushExpense(s, [amount |-> amount.v, description |-> String(description),
                                  categoryId |-> existing[others].id, date |-> dateStr,
                                  notes |-> notes], from)
             ELSE LET result == resolveCategory(existing, aiMapping, s.created, s.uuid, l_Others)
                      s1 == AfterResolve(s, result)
                  IN IF result.threw THEN s1
                     ELSE PushExpense(s1, [amount |-> amount.v,
                                           description |-> String(description),
                                           categoryId |-> result.id, date |-> dateStr,
                                           notes |-> notes], from)

\* Array.from(newCategoriesCreatedMap.values())
mapValues(created) == [i \in 1..Len(created) |-> created[i].cat]
(***************************************************************************)
(* Inputs: the sheets, the existing categories and the oracle's answers    *)
(***************************************************************************)
h_Date == <<"D","a","t","e">>
h_Description == <<"D","e","s","c","r","i","p","t","i","o","n">>
h_Category == <<"C","a","t","e","g","o","r","y">>
h_Amount == <<"A","m","o","u","n","t">>
h_Notes == <<"N","o","t","e","s">>
h_Food == <<"F","o","o","d">>
h_Rent_padded == <<" ","R","e","n","t"," ">>
h_Grand_Total == <<"G","r","a","n","d"," ","T","o","t","a","l">>
h_Total == <<"T","o","t","a","l">>
h_Day == <<"D","a","y">>
h_DATE == <<"D","A","T","E">>
h_Dated == <<"D","a","t","e","d">>
h_Value == <<"V","a","l","u","e">>
h_Debit == <<"D","e","b","i","t">>
h_Type == <<"T","y","p","e">>
h_Final == <<"F","i","n","a","l">>
h_Sum == <<"S","u","m">>
h_Comments == <<"C","o","m","m","e","n","t","s">>
h_Subtotal == <<"S","u","b","t","o","t","a","l">>
h_Fuel == <<"f","u","e","l">>
v_kirana_store == <<"k","i","r","a","n","a"," ","s","t","o","r","e">>
v_swiggy_order == <<"s","w","i","g","g","y"," ","o","r","d","e","r">>
v_Swiggy == <<"S","w","i","g","g","y">>
v_SWIGGY == <<"S","W","I","G","G","Y">>
v_food_padded == <<" ","f","o","o","d"," ">>
v_Food_bill == <<"F","o","o","d"," ","b","i","l","l">>
v_tea == <<"t","e","a">>
v_Debit == <<"D","e","b","i","t">>
v_Credit == <<"C","r","e","d","i","t">>
v_Travel == <<"T","r","a","v","e","l">>
v_Rent == <<"R","e","n","t">>
v_minus200 == <<"-","2","0","0">>
v_12abc == <<"1","2","a","b","c">>
v_abc == <<"a","b","c">>
v_1_200 == <<"1",",","2","0","0">>
v_minus5 == <<"-","5">>
v_x == <<"x">>
v_7 == <<"7">>
v_ok == <<"o","k">>
v_Total == <<"T","o","t","a","l">>
v_Final_sum == <<"F","i","n","a","l"," ","s","u","m">>
v_d1 == <<"0","1","-","0","2","-","2","0","2","4">>
v_d2 == <<"0","2","-","0","2","-","2","0","2","4">>
v_d3 == <<"2","0","2","4","-","0","1","-","0","3">>
n_Food == <<"F","o","o","d">>
n_Others == <<"O","t","h","e","r","s">>
n_Health == <<"H","e","a","l","t","h">>

S(s) == StrCell(s)
N(n) == NumCell(n)
Blank == StrCell(<<>>)

\* the number of data rows of a generated sheet
MaxRows == 2
\* the number of entries of an object the oracle returns
MaxOracleEntries == 1
\* the length of a batch up to which the oracle's answers are enumerated key
\* by key
MaxKeyTokens == 4

\* Date, Description, Category, Amount: a transaction list with a category column
ListHeaders == <<h_Date, h_Description, h_Category, h_Amount>>
ListRowPool ==
  { <<S(v_d1), S(v_kirana_store), S(v_Swiggy), N(500)>>,
    <<S(v_d2), S(v_swiggy_order), S(v_SWIGGY), S(v_minus200)>>,
    <<S(v_d3), Blank, Blank, N(0)>>,
    <<Blank, S(v_Food_bill), S(v_food_padded), S(v_12abc)>>,
    <<Blank, Blank, S(v_Debit), S(v_abc)>>,
    <<S(v_abc), S(v_tea), Blank, N(40)>> }

\* Date, Description, Amount: a transaction list without a category column
PlainHeaders == <<h_Date, h_Description, h_Amount>>
PlainRowPool ==
  { <<S(v_d1), S(v_kirana_store), N(500)>>,
    <<S(v_d2), S(v_swiggy_order), N(0 - 200)>>,
    <<S(v_d3), Blank, N(0)>>,
    <<Blank, N(7), Blank>>,
    <<S(v_abc), Blank, N(40)>> }

\* Date, Food, " Rent ", Total, Grand Total, Notes: a date by category matrix
MatrixHeaders == <<h_Date, h_Food, h_Rent_padded, h_Total, h_Grand_Total, h_Notes>>
MatrixRowPool ==
  { <<S(v_d1), N(120), N(300), N(420), N(420), S(v_ok)>>,
    <<S(v_Total), N(120), N(300), N(420), N(420), Blank>>,
    <<Blank, N(5), N(5), N(10), N(10), Blank>>,
    <<S(v_d2), S(v_1_200), S(v_minus5), S(v_x), N(1195), S(v_7)>>,
    <<S(v_Final_sum), N(0 - 3), Blank, N(0), N(0), Blank>>,
    <<S(v_d3), N(0), S(v_abc), N(0), S(v_7), Blank>> }

\* Day, Final, Sum, Comments, Description, Subtotal, fuel: every ignored word
SummaryHeaders == <<h_Day, h_Final, h_Sum, h_Comments, h_Description, h_Subtotal, h_Fuel>>
SummaryRowPool ==
  { <<S(v_d1), N(9), N(9), N(9), N(9), N(9), N(60)>>,
    <<S(v_d2), S(v_7), S(v_7), S(v_ok), S(v_tea), N(0), Blank>> }

SeqsUpTo(pool, n) == UNION {[1..k -> pool] : k \in 1..n}
SheetsOf(headers, pool, n) == {[headers |-> headers, rows |-> rows] : rows \in SeqsUpTo(pool, n)}
\* a file without data rows: sheet_to_json returns []
EmptySheet == [headers |-> <<>>, rows |-> <<>>]

Sheets == {EmptySheet} \cup SheetsOf(ListHeaders, ListRowPool, MaxRows)
                       \cup SheetsOf(PlainHeaders, PlainRowPool, MaxRows)
                       \cup SheetsOf(MatrixHeaders, MatrixRowPool, MaxRows)
                       \cup SheetsOf(SummaryHeaders, SummaryRowPool, MaxRows)

Cat(id, name, custom) == [id |-> id, name |-> name, isCustom |-> custom]
ExistingChoices == { <<>>, <<Cat("c1", n_Food, FALSE), Cat("c2", n_Others, FALSE)>> }

\* The keys an answer may hold: the tokens sent, as sent or lower-cased.
OracleKeys(tokens) == {tokens[i] : i \in 1..Len(tokens)} \cup {toLowerCase(tokens[i]) : i \in 1..Len(tokens)}
\* The values: an existing id, "NEW", or an id no category has.
OracleValues(existing) == {existing[i].id : i \in 1..Len(existing)} \cup {"NEW", "zz"}
\* The answers to a batch of more than MaxKeyTokens tokens: every token sent
\* is given the same value.
UniformObjects(tokens, existing) ==
  {[k \in {tokens[i] : i \in 1..Len(tokens)} |-> v] : v \in OracleValues(existing)}
OracleObjects(tokens, existing) ==
  IF Len(tokens) > MaxKeyTokens THEN UniformObjects(tokens, existing)
  ELSE UNION {[K -> OracleValues(existing)] :
                K \in {K \in SUBSET OracleKeys(tokens) : Cardinality(K) <= MaxOracleEntries}}
OracleFailureKinds == {"no_api_key", "request_fails", "invalid_json", "empty_text",
                       "json_scalar", "json_null"}
OracleOutcomes(tokens, existing) ==
  {[kind |-> k, entries |-> <<>>] : k \in OracleFailureKinds}
  \cup {[kind |-> "json_object", entries |-> m] : m \in OracleObjects(tokens, existing)}

(***************************************************************************)
(* One call of ExcelService.parseFile                                      *)
(***************************************************************************)
VARIABLES
  sheet,               \* rawData with its headers
  existingCategories,  \* the caller's categories
  pc,                  \* "start", "awaiting", "rows", "resolved", "rejected"
  isMatrixMode, usedSourceType, uniqueRawCategories,
  oracleCalls,         \* the batches handed to mapImportCategories, in order
  oracle,              \* what the oracle call did, "none" before it returns
  aiMapping,
  session,             \* newExpenses, newCategoriesCreatedMap and the calls made
  rowIdx,              \* the next row of rawData.forEach
  result,              \* the value the promise resolved with
  other,               \* a second call of parseFile that is not running now
  modal,               \* the state of the upload dialog and its running processFile calls
  app                  \* the categories and expenses of the app, and what was deleted

vars == <<sheet, existingCategories, pc, isMatrixMode, usedSourceType, uniqueRawCategories,
          oracleCalls, oracle, aiMapping, session, rowIdx, result, other, modal, app>>
\* the variables of the parseFile calls
callVars == <<sheet, existingCategories, pc, isMatrixMode, usedSourceType, uniqueRawCategories,
              oracleCalls, oracle, aiMapping, session, rowIdx, result, other>>

NoResult == [expenses |-> <<>>, newCategories |-> <<>>]

\* there is no second call
NoOther == [pc |-> "none"]

\* a call before its file is read
CallStart ==
  /\ pc = "start"
  /\ isMatrixMode = FALSE
  /\ usedSourceType = "explicit_category"
  /\ uniqueRawCategories = <<>>
  /\ oracleCalls = <<>>
  /\ oracle = "none"
  /\ aiMapping = EmptyObject
  /\ session = NewSession
  /\ rowIdx = 1
  /\ result = NoResult

\* the upload dialog as mounted: closed, at its upload step, nothing parsed
NoModal ==
  [isOpen |-> FALSE, step |-> "upload", parsedExpenses |-> <<>>, newCategories |-> <<>>,
   loading |-> FALSE, error |-> FALSE, processingType |-> "null",
   running |-> {}, dropped |-> {}, imported |-> <<>>]
\* the app before anything is loaded
NoApp == [categories |-> <<>>, expenses |-> <<>>, deleted |-> {}, minted |-> 0,
          round |-> 0, first |-> <<>>]
NoUi == modal = NoModal /\ app = NoApp

InitCall ==
  /\ other = NoOther
  /\ CallStart
  /\ NoUi

Init ==
  /\ sheet \in Sheets
  /\ existingCategories \in ExistingChoices
  /\ InitCall

\* reader.onerror, or XLSX.read throwing on bytes it cannot decode
ReadError ==
  /\ pc = "start"
  /\ pc' = "rejected"
  /\ UNCHANGED <<sheet, existingCategories, isMatrixMode, usedSourceType, uniqueRawCategories,
                 oracleCalls, oracle, aiMapping, session, rowIdx, result, other, modal, app>>

\* rawData.length === 0 (line 41)
noDataRows_never(rows) == FALSE
noDataRows(rows) == Len(rows) = 0

\* uniqueRawCategories.length > 0 (line 112): the oracle is asked only then
oracleNeeded_always(unique) == TRUE
oracleNeeded(unique) == Len(unique) > 0

\* uniqueRawCategories.slice(0, 1000) (line 114)
batchOf_all(unique) == unique
batchOf(unique) == SubSeq(unique, 1, IF Len(unique) < BatchLimit THEN Len(unique) ELSE BatchLimit)

\* reader.onload up to the await of the oracle (lines 33-116)
\* where the handler is after detection: at the await of line 115 when the
\* oracle is called, in the row loop otherwise
afterDetection_noWait(needed) == "rows"
afterDetection(needed) == IF needed THEN "awaiting" ELSE "rows"

ReadFile ==
  /\ pc = "start"
  /\ IF noDataRows(sheet.rows)
     THEN /\ pc' = "resolved"
          /\ result' = NoResult
          /\ UNCHANGED <<isMatrixMode, usedSourceType, uniqueRawCategories, oracleCalls>>
     ELSE LET unique == uniqueRawCategoriesOf(sheet.headers, sheet.rows)
              batch == batchOf(unique)
          IN /\ isMatrixMode' = isMatrixModeOf(sheet.headers)
             /\ usedSourceType' = usedSourceTypeOf(sheet.headers, sheet.rows)
             /\ uniqueRawCategories' = unique
             /\ pc' = afterDetection(oracleNeeded(unique))
             /\ oracleCalls' = IF oracleNeeded(unique) THEN Append(oracleCalls, batch)
                               ELSE oracleCalls
             /\ UNCHANGED result
  /\ UNCHANGED <<sheet, existingCategories, oracle, aiMapping, session, rowIdx, other, modal, app>>

\* the awaited mapImportCategories settles (line 115)
OracleReturn ==
  /\ pc = "awaiting"
  /\ \E outcome \in OracleOutcomes(oracleCalls[Len(oracleCalls)], existingCategories) :
       /\ oracle' = outcome.kind
       /\ aiMapping' = mapImportCategories(outcome)
  /\ pc' = "rows"
  /\ UNCHANGED <<sheet, existingCategories, isMatrixMode, usedSourceType, uniqueRawCategories,
                 oracleCalls, session, rowIdx, result, other, modal, app>>

\* an exception in the row loop reaches the catch of line 269: reject(error)
AfterRow(s) ==
  /\ session' = s
  /\ IF s.threw THEN pc' = "rejected" /\ UNCHANGED rowIdx
     ELSE pc' = "rows" /\ rowIdx' = rowIdx + 1
  /\ UNCHANGED <<sheet, existingCategories, isMatrixMode, usedSourceType, uniqueRawCategories,
                 oracleCalls, oracle, aiMapping, result, other, modal, app>>

MatrixRowStep ==
  /\ pc = "rows" /\ isMatrixMode /\ rowIdx <= Len(sheet.rows)
  /\ AfterRow(matrixRow(existingCategories, aiMapping, sheet.headers, uniqueRawCategories,
                        sheet.rows[rowIdx], rowIdx, session))

ListRowStep ==
  /\ pc = "rows" /\ ~isMatrixMode /\ rowIdx <= Len(sheet.rows)
  /\ AfterRow(listRow(existingCategories, aiMapping, sheet.headers, usedSourceType,
                      sheet.rows[rowIdx], rowIdx, session))

\* resolve({expenses, newCategories}) (lines 264-267)
Finish ==
  /\ pc = "rows" /\ rowIdx > Len(sheet.rows)
  /\ pc' = "resolved"
  /\ result' = [expenses |-> session.expenses, newCategories |-> mapValues(session.created)]
  /\ UNCHANGED <<sheet, existingCategories, isMatrixMode, usedSourceType, uniqueRawCategories,
                 oracleCalls, oracle, aiMapping, session, rowIdx, other, modal, app>>

Next == ReadError \/ ReadFile \/ OracleReturn \/ MatrixRowStep \/ ListRowStep \/ Finish

Spec == Init /\ [][Next]_vars
\* The whole row loop and the value handed to resolve (lines 161-267), for a
\* given aiMapping: the session after rows 1..k
RECURSIVE sessionAfter(_, _, _, _)
sessionAfter(existing, mapping, sh, k) ==
  IF k = 0 THEN NewSession
  ELSE LET s == sessionAfter(existing, mapping, sh, k - 1)
       IN IF isMatrixModeOf(sh.headers)
          THEN matrixRow(existing, mapping, sh.headers,
                         uniqueRawCategoriesOf(sh.headers, sh.rows), sh.rows[k], k, s)
          ELSE listRow(existing, mapping, sh.headers,
                       usedSourceTypeOf(sh.headers, sh.rows), sh.rows[k], k, s)
importResult(existing, mapping, sh) ==
  LET s == sessionAfter(existing, mapping, sh, Len(sh.rows))
  IN [expenses |-> s.expenses, newCategories |-> mapValues(s.created)]

(***************************************************************************)
(* Schema detection alone: the sheets vary in their headers and in their   *)
(* category column, and the call is followed up to the await.              *)
(***************************************************************************)
\* the number of headers of a generated header row
MaxHeaders == 3
\* the number of data rows of a sheet generated for its category column
MaxDetectRows == 6

HeaderPool == {h_Date, h_DATE, h_Dated, h_Day, h_Amount, h_Value, h_Food, h_Notes}
HeaderRows == {hs \in UNION {[1..k -> HeaderPool] : k \in 1..MaxHeaders} :
                 \A i, j \in 1..Len(hs) : hs[i] = hs[j] => i = j}
HeaderSheets == {[headers |-> hs, rows |-> <<[i \in 1..Len(hs) |-> N(10)]>>] : hs \in HeaderRows}

ColumnHeaders == <<h_Description, h_Category, h_Amount>>
ColumnRowPool == {<<S(v_tea), c, N(10)>> : c \in {S(v_Debit), S(v_Credit), S(v_Swiggy), S(v_Travel), Blank}}
ColumnSheets == SheetsOf(ColumnHeaders, ColumnRowPool, MaxDetectRows)

InitDetect ==
  /\ sheet \in HeaderSheets \cup ColumnSheets
  /\ existingCategories = <<>>
  /\ InitCall

NextDetect == ReadError \/ ReadFile

SpecDetect == InitDetect /\ [][NextDetect]_vars

(***************************************************************************)
(* Sheets with more distinct tokens than the batch cap: a category column  *)
(* whose i-th row holds the token "T<i>"; the first row and the rows from  *)
(* the cap on carry an amount.                                             *)
(***************************************************************************)
BatchToken(i) == <<"T">> \o natToStr(i)
BatchHeaders == <<h_Category, h_Amount>>
BatchRow(i) == <<S(BatchToken(i)), IF i = 1 \/ i >= BatchLimit THEN N(5) ELSE Blank>>
BatchSizes == {BatchLimit, BatchLimit + 1, BatchLimit + 2}
BatchSheets == {[headers |-> BatchHeaders, rows |-> [i \in 1..n |-> BatchRow(i)]] : n \in BatchSizes}
\* an existing category that has the name of the first token beyond the cap
BatchExisting == <<Cat("c1", BatchToken(BatchLimit + 1), FALSE)>>

InitBatch ==
  /\ sheet \in BatchSheets
  /\ existingCategories = BatchExisting
  /\ InitCall

NextBatch == ReadError \/ ReadFile \/ OracleReturn \/ ListRowStep \/ Finish

SpecBatch == InitBatch /\ [][NextBatch]_vars

(***************************************************************************)
(* Two calls of parseFile.  JavaScript runs one handler at a time, so the  *)
(* calls interleave only where a call waits: before its file is read and   *)
(* at the await of the oracle.  The variables hold the call that runs and  *)
(* `other` the call that waits.  Each call has its own closure (lines      *)
(* 45-46); uuidv4 is the one thing both draw from.                         *)
(***************************************************************************)
ThisCall ==
  [sheet |-> sheet, pc |-> pc, isMatrixMode |-> isMatrixMode, usedSourceType |-> usedSourceType,
   uniqueRawCategories |-> uniqueRawCategories, oracleCalls |-> oracleCalls, oracle |-> oracle,
   aiMapping |-> aiMapping, session |-> session, rowIdx |-> rowIdx, result |-> result,
   overlapped |-> IF other.pc = "none" THEN FALSE ELSE other.overlapped]
\* (overlapped: a call has run while the other was at its await)

\* a call that has been made and waits for its file
StartedCall(sh) ==
  [sheet |-> sh, pc |-> "start", isMatrixMode |-> FALSE, usedSourceType |-> "explicit_category",
   uniqueRawCategories |-> <<>>, oracleCalls |-> <<>>, oracle |-> "none",
   aiMapping |-> EmptyObject, session |-> NewSession, rowIdx |-> 1, result |-> NoResult,
   overlapped |-> FALSE]

\* newCategoriesCreatedMap is local to the call (line 46): the map a call
\* goes on with is its own, whatever the other call has put in its map
ownedMap_shared(mine, theirs) == theirs
ownedMap(mine, theirs) == mine

\* the running call waits or has ended, and the handler of the other call runs
Switch ==
  /\ other.pc \in {"start", "awaiting"}
  /\ pc \in {"start", "awaiting", "resolved", "rejected"}
  /\ other' = [ThisCall EXCEPT !.overlapped = other.overlapped \/ pc = "awaiting"]
  /\ sheet' = other.sheet
  /\ pc' = other.pc
  /\ isMatrixMode' = other.isMatrixMode
  /\ usedSourceType' = other.usedSourceType
  /\ uniqueRawCategories' = other.uniqueRawCategories
  /\ oracleCalls' = other.oracleCalls
  /\ oracle' = other.oracle
  /\ aiMapping' = other.aiMapping
  /\ session' = [other.session EXCEPT !.uuid = session.uuid,
                                      !.created = ownedMap(other.session.created, session.created)]
  /\ rowIdx' = other.rowIdx
  /\ result' = other.result
  /\ UNCHANGED <<existingCategories, modal, app>>

TwoRowPool == << <<S(v_d1), S(v_kirana_store), S(v_Swiggy), N(500)>>,
                <<S(v_d2), S(v_swiggy_order), S(v_SWIGGY), S(v_minus200)>> >>
TwoSheets == {[headers |-> ListHeaders, rows |-> rows] :
                rows \in {<<TwoRowPool[1]>>, <<TwoRowPool[2]>>, TwoRowPool}}

InitTwo ==
  /\ sheet \in TwoSheets
  /\ existingCategories \in ExistingChoices
  /\ CallStart
  /\ other \in {StartedCall(sh) : sh \in TwoSheets}
  /\ NoUi

NextTwo == ReadError \/ ReadFile \/ OracleReturn \/ ListRowStep \/ Finish \/ Switch

SpecTwo == InitTwo /\ [][NextTwo]_vars

(***************************************************************************)
(* Dates alone: sheets of one row, a date text and an amount.              *)
(***************************************************************************)
DateDays == {0, 1, 5, 9, 10, 28, 29, 30, 31, 32}
DateMonths == {0, 1, 2, 3, 4, 9, 10, 12, 13}
DateYears == {24, 99, 100, 1900, 2023, 2024}
DateSeps == {"-", "/"}
\* a day or a month in one digit where it has one, or in two
DayMonthTexts(n) == {natToStr(n), padNat(n, 2)}
DayFirstTexts ==
  {d \o <<s1>> \o m \o <<s2>> \o padNat(y, 4) :
     d \in UNION {DayMonthTexts(n) : n \in DateDays},
     m \in UNION {DayMonthTexts(n) : n \in DateMonths},
     y \in DateYears, s1 \in DateSeps, s2 \in DateSeps}
\* texts that are not day-first: ISO, a two-digit year, a trailing blank, a word
v_d_short_year == <<"0","5","-","0","3","-","2","4">>
v_d_trailing == <<"0","5","-","0","3","-","2","0","2","4"," ">>
OtherDateCells == {S(v_d3), S(v_d_short_year), S(v_d_trailing), S(v_abc), Blank, N(7)}
DateHeaders == <<h_Date, h_Amount>>
DateSheets ==
  {[headers |-> DateHeaders, rows |-> << <<c, N(5)>> >>] :
     c \in {S(t) : t \in DayFirstTexts} \cup OtherDateCells}

InitDate ==
  /\ sheet \in DateSheets
  /\ existingCategories = <<>>
  /\ InitCall

NextDate == ReadError \/ ReadFile \/ ListRowStep \/ Finish

SpecDate == InitDate /\ [][NextDate]_vars

(***************************************************************************)
(* The resolver alone: a sheet of one row whose category cell is the       *)
(* token, taken when the oracle has answered with any object over the      *)
(* three forms of the token that line 128 looks up.                        *)
(***************************************************************************)
v_Swiggy_padded == <<" ","S","w","i","g","g","y"," ">>
v_swiggy == <<"s","w","i","g","g","y">>
v_Food == <<"F","o","o","d">>
ResolveTokens == {v_Swiggy_padded, v_Swiggy, v_swiggy, v_food_padded, v_Food}
\* rawInput, cleanRaw and lowerRaw
FormsOf(rawInput) == {rawInput, trim(rawInput), toLowerCase(trim(rawInput))}
ResolveMappings(rawInput, existing) ==
  UNION {[K -> OracleValues(existing)] : K \in SUBSET FormsOf(rawInput)}
ResolveSheet(rawInput) ==
  [headers |-> ListHeaders,
   rows |-> << <<S(v_d1), S(v_kirana_store), S(rawInput), N(500)>> >>]

\* the call after the oracle has returned the object m
InitResolve ==
  /\ existingCategories \in ExistingChoices
  /\ \E rawInput \in ResolveTokens :
       /\ sheet = ResolveSheet(rawInput)
       /\ aiMapping \in {JsonObject(m) : m \in ResolveMappings(rawInput, existingCategories)}
  /\ isMatrixMode = isMatrixModeOf(sheet.headers)
  /\ usedSourceType = usedSourceTypeOf(sheet.headers, sheet.rows)
  /\ uniqueRawCategories = uniqueRawCategoriesOf(sheet.headers, sheet.rows)
  /\ oracleCalls = <<batchOf(uniqueRawCategories)>>
  /\ oracle = "json_object"
  /\ pc = "rows"
  /\ session = NewSession
  /\ rowIdx = 1
  /\ result = NoResult
  /\ other = NoOther
  /\ NoUi

NextResolve == ListRowStep \/ Finish

SpecResolve == InitResolve /\ [][NextResolve]_vars

(***************************************************************************)
(* Alias columns: a transaction list in which two aliases of the           *)
(* description, of the category and of the amount each have a column, and  *)
(* a row may leave either cell empty (sheet_to_json is called with         *)
(* defval "", so an empty cell is the empty string under its header).      *)
(***************************************************************************)
h_Details == <<"D","e","t","a","i","l","s">>
AliasHeaders == <<h_Description, h_Details, h_Category, h_Type, h_Amount, h_Debit>>
AliasRowPool ==
  { <<S(v_kirana_store), S(v_tea), S(v_Swiggy), S(v_Debit), N(500), N(40)>>,
    <<Blank, S(v_tea), Blank, S(v_Travel), Blank, N(300)>>,
    <<S(v_swiggy_order), Blank, S(v_Rent), Blank, S(v_minus200), Blank>>,
    <<Blank, Blank, Blank, Blank, Blank, Blank>> }
AliasSheets == SheetsOf(AliasHeaders, AliasRowPool, MaxRows)

InitAlias ==
  /\ sheet \in AliasSheets
  /\ existingCategories \in ExistingChoices
  /\ InitCall

NextAlias == ReadError \/ ReadFile \/ OracleReturn \/ ListRowStep \/ Finish

SpecAlias == InitAlias /\ [][NextAlias]_vars

(***************************************************************************)
(* The Others fallback: a transaction list whose category cell is either   *)
(* the token "Others" or empty, with or without a category named Others.   *)
(***************************************************************************)
OthersRowPool ==
  { <<S(v_d1), S(v_kirana_store), S(l_Others), N(500)>>,
    <<S(v_d2), S(v_tea), Blank, N(40)>>,
    <<S(v_d3), S(v_swiggy_order), Blank, N(0)>> }
OthersSheets == SheetsOf(ListHeaders, OthersRowPool, MaxRows)
OthersExisting ==
  ExistingChoices \cup { <<Cat("c1", n_Food, FALSE), Cat("c2", toLowerCase(n_Others), TRUE)>> }

InitOthers ==
  /\ sheet \in OthersSheets
  /\ existingCategories \in OthersExisting
  /\ InitCall

NextOthers == ReadError \/ ReadFile \/ OracleReturn \/ ListRowStep \/ Finish

SpecOthers == InitOthers /\ [][NextOthers]_vars

(***************************************************************************)
(* Order: a matrix with two category columns, and the transaction lists.   *)
(***************************************************************************)
OrderHeaders == <<h_Date, h_Food, h_Fuel, h_Total>>
OrderRowPool ==
  { <<S(v_d1), N(120), N(60), N(180)>>,
    <<S(v_d2), N(0), N(7), N(7)>>,
    <<S(v_d3), N(5), S(v_1_200), N(1205)>> }
OrderSheets ==
  SheetsOf(OrderHeaders, OrderRowPool, MaxRows) \cup SheetsOf(ListHeaders, ListRowPool, MaxRows)

InitOrder ==
  /\ sheet \in OrderSheets
  /\ existingCategories \in ExistingChoices
  /\ InitCall

SpecOrder == InitOrder /\ [][Next]_vars

(***************************************************************************)
(* The upload dialog (UploadModal).  What parseFile and the image scan     *)
(* give for a file is any of their outcomes; every expense and every       *)
(* category carries the file it came from.                                 *)
(***************************************************************************)
UploadFiles == {"x1", "x2", "i1"}
IsImage(f) == f = "i1"
\* ExcelService.parseFile(file, categories): rejected, or resolved with no
\* expense, with expenses, or with expenses and new categories
ParseFileOutcomes(f) ==
  { [ok |-> FALSE, expenses |-> <<>>, newCategories |-> <<>>],
    [ok |-> TRUE, expenses |-> <<>>, newCategories |-> <<>>],
    [ok |-> TRUE, expenses |-> <<[file |-> f]>>, newCategories |-> <<>>],
    [ok |-> TRUE, expenses |-> <<[file |-> f]>>, newCategories |-> <<[file |-> f]>>] }
\* GeminiService.parseExpenseImage: rejected, or resolved with no item or one
ParseImageOutcomes(f) ==
  { [ok |-> FALSE, expenses |-> <<>>, newCategories |-> <<>>],
    [ok |-> TRUE, expenses |-> <<>>, newCategories |-> <<>>],
    [ok |-> TRUE, expenses |-> <<[file |-> f]>>, newCategories |-> <<>>] }

modalVars == <<callVars, app>>

\* setIsUploadModalOpen(true) (ExpenseList)
OpenModal ==
  /\ ~modal.isOpen
  /\ modal' = [modal EXCEPT !.isOpen = TRUE]
  /\ UNCHANGED modalVars

\* processFile up to its first await (lines 54-64, 83-84); the drop zone
\* takes a file whenever the upload step is shown
ProcessFile ==
  /\ modal.isOpen /\ modal.step = "upload"
  /\ \E f \in UploadFiles \ modal.dropped :
       modal' = [modal EXCEPT !.loading = TRUE, !.error = FALSE,
                              !.parsedExpenses = <<>>, !.newCategories = <<>>,
                              !.processingType = IF IsImage(f) THEN "image" ELSE "excel",
                              !.running = @ \cup {f}, !.dropped = @ \cup {f}]
  /\ UNCHANGED modalVars

\* the state a processFile call leaves when its await settles with out
\* (lines 66-99)
fileProcessed(f, out) ==
  IF ~out.ok \/ out.expenses = <<>>
  THEN [modal EXCEPT !.error = TRUE, !.step = "upload", !.loading = FALSE,
                     !.running = @ \ {f}]
  ELSE IF IsImage(f)
  THEN [modal EXCEPT !.parsedExpenses = out.expenses,
                     !.step = "preview", !.loading = FALSE, !.running = @ \ {f}]
  ELSE [modal EXCEPT !.parsedExpenses = out.expenses, !.newCategories = out.newCategories,
                     !.step = "preview", !.loading = FALSE, !.running = @ \ {f}]

FileProcessed ==
  /\ \E f \in modal.running :
       \E out \in (IF IsImage(f) THEN ParseImageOutcomes(f) ELSE ParseFileOutcomes(f)) :
         modal' = fileProcessed(f, out)
  /\ UNCHANGED modalVars

\* resetModal (lines 108-115)
resetModal(m) ==
  [m EXCEPT !.step = "upload", !.parsedExpenses = <<>>, !.newCategories = <<>>,
            !.error = FALSE, !.processingType = "null", !.isOpen = FALSE]

\* handleConfirmImport (lines 103-106)
ConfirmImport ==
  /\ modal.isOpen /\ modal.step = "preview"
  /\ modal' = resetModal([modal EXCEPT !.imported =
                 Append(@, [expenses |-> modal.parsedExpenses,
                            newCategories |-> modal.newCategories])])
  /\ UNCHANGED modalVars

\* the Cancel and X buttons
CancelModal ==
  /\ modal.isOpen
  /\ modal' = resetModal(modal)
  /\ UNCHANGED modalVars

InitModal ==
  /\ sheet = EmptySheet /\ existingCategories = <<>>
  /\ other = NoOther /\ CallStart
  /\ NoUi

NextModal == OpenModal \/ ProcessFile \/ FileProcessed \/ ConfirmImport \/ CancelModal

SpecModal == InitModal /\ [][NextModal]_vars

(***************************************************************************)
(* The app state (App): the category list and the expense list, and the    *)
(* handlers that change them.  An expense is kept as the category it       *)
(* references; reverted marks an expense whose category was deleted, and   *)
(* deleted is the set of ids deleteCategory was called with.               *)
(***************************************************************************)
MaxAppCategories == 2
MaxAppExpenses == 2
AppIdPool == <<"a1", "a2", "a3", "a4">>
n_Rent == <<"R","e","n","t">>
AppNames == {n_Others, n_Rent}
\* what the initial load puts into categories: the stored list, or the
\* default list when nothing is stored
LoadedCategories ==
  { <<Cat("c1", n_Food, FALSE)>>,
    <<Cat("c1", n_Food, FALSE), Cat("c2", n_Others, FALSE)>> }
AppExpense(cid) == [categoryId |-> cid, reverted |-> FALSE]
categoryIds(cats) == {cats[i].id : i \in 1..Len(cats)}

addCategory(a, category) == [a EXCEPT !.categories = Append(@, category)]
addExpense(a, newExpense) == [a EXCEPT !.expenses = <<newExpense>> \o @]
addExpenses(a, newExpenses, newCategories) ==
  [a EXCEPT !.categories = @ \o newCategories, !.expenses = newExpenses \o @]
\* categories.find(c => c.name === 'Others')?.id || 'others'
otherCatId(cats) ==
  LET hits == {i \in 1..Len(cats) : cats[i].name = n_Others}
  IN IF hits = {} THEN "others"
     ELSE cats[CHOOSE i \in hits : \A j \in hits : i <= j].id
FilterCats(cats, id) ==
  LET keep == {i \in 1..Len(cats) : cats[i].id # id}
      F[k \in 0..Len(cats)] ==
        IF k = 0 THEN <<>>
        ELSE IF k \in keep THEN Append(F[k - 1], cats[k]) ELSE F[k - 1]
  IN F[Len(cats)]
deleteCategory(a, id) ==
  [a EXCEPT !.expenses = [k \in 1..Len(@) |->
                            IF @[k].categoryId = id
                            THEN [categoryId |-> otherCatId(a.categories), reverted |-> TRUE]
                            ELSE @[k]],
            !.categories = FilterCats(@, id),
            !.deleted = @ \cup {id}]

appVars == <<callVars, modal>>

\* CategoryManager.handleSubmit: a non-empty trimmed name, a fresh id
AddCategory ==
  /\ app.minted < MaxAppCategories
  /\ \E name \in AppNames :
       app' = [addCategory(app, Cat(AppIdPool[app.minted + 1], name, TRUE))
                 EXCEPT !.minted = @ + 1]
  /\ UNCHANGED appVars

\* ExpenseForm: the category is one of the listed ones
AddExpense ==
  /\ Len(app.expenses) < MaxAppExpenses
  /\ \E cid \in categoryIds(app.categories) : app' = addExpense(app, AppExpense(cid))
  /\ UNCHANGED appVars

\* onImportExpenses with what an import gave: one expense, of a listed
\* category or of the one category the import created
AddExpenses ==
  /\ Len(app.expenses) < MaxAppExpenses
  /\ \/ \E cid \in categoryIds(app.categories) :
          app' = addExpenses(app, <<AppExpense(cid)>>, <<>>)
     \/ /\ app.minted < MaxAppCategories
        /\ \E name \in AppNames :
             LET id == AppIdPool[app.minted + 1]
             IN app' = [addExpenses(app, <<AppExpense(id)>>, <<Cat(id, name, TRUE)>>)
                          EXCEPT !.minted = @ + 1]
  /\ UNCHANGED appVars

\* the delete button, shown for custom categories only
DeleteCategory ==
  /\ \E i \in 1..Len(app.categories) :
       /\ app.categories[i].isCustom
       /\ app' = deleteCategory(app, app.categories[i].id)
  /\ UNCHANGED appVars

InitApp ==
  /\ sheet = EmptySheet /\ existingCategories = <<>>
  /\ other = NoOther /\ CallStart
  /\ modal = NoModal
  /\ app \in {[NoApp EXCEPT !.categories = cats] : cats \in LoadedCategories}

NextApp == AddCategory \/ AddExpense \/ AddExpenses \/ DeleteCategory

SpecApp == InitApp /\ [][NextApp]_vars

(***************************************************************************)
(* An import confirmed and the same rows imported again: the result of     *)
(* the first parseFile call goes through addExpenses into the app's lists, *)
(* and a second call starts with the app's category list.                  *)
(***************************************************************************)
v_blank == <<" ">>
ReimportTokens == {v_Swiggy, v_swiggy, v_Food, v_food_padded, v_blank}
ReimportRow(tok) == <<S(v_d1), S(v_kirana_store), S(tok), N(500)>>
ReimportSheets ==
  {[headers |-> ListHeaders, rows |-> <<ReimportRow(t)>>] : t \in ReimportTokens} \cup
  {[headers |-> ListHeaders, rows |-> <<ReimportRow(t1), ReimportRow(t2)>>] :
     t1 \in ReimportTokens, t2 \in ReimportTokens}
importedExpenses(expenses) ==
  [k \in 1..Len(expenses) |-> AppExpense(expenses[k].categoryId)]

\* the preview is confirmed (onImport -> addExpenses), and the same file
\* is dropped again: parseFile(file, categories) with the updated list
ImportAgain ==
  /\ pc = "resolved" /\ app.round = 0
  /\ app' = [addExpenses(app, importedExpenses(result.expenses), result.newCategories)
               EXCEPT !.round = 1, !.first = [log |-> session.log, aiMapping |-> aiMapping]]
  /\ existingCategories' = app'.categories
  /\ pc' = "start"
  /\ isMatrixMode' = FALSE
  /\ usedSourceType' = "explicit_category"
  /\ uniqueRawCategories' = <<>>
  /\ oracleCalls' = <<>>
  /\ oracle' = "none"
  /\ aiMapping' = EmptyObject
  /\ session' = [NewSession EXCEPT !.uuid = session.uuid]
  /\ rowIdx' = 1
  /\ result' = NoResult
  /\ UNCHANGED <<sheet, other, modal>>

InitReimport ==
  /\ sheet \in ReimportSheets
  /\ existingCategories \in ExistingChoices
  /\ other = NoOther /\ CallStart
  /\ modal = NoModal
  /\ app = [NoApp EXCEPT !.categories = existingCategories]

NextReimport == ReadFile \/ OracleReturn \/ ListRowStep \/ Finish \/ ImportAgain

SpecReimport == InitReimport /\ [][NextReimport]_vars

(***************************************************************************)
(* Properties                                                              *)
(***************************************************************************)
ExistingIds == {existingCategories[i].id : i \in 1..Len(existingCategories)}
CreatedIds == {session.created[i].cat.id : i \in 1..Len(session.created)}
NewCategoryIds == {result.newCategories[i].id : i \in 1..Len(result.newCategories)}
SameIgnoringCase(a, b) == toLowerCase(a) = toLowerCase(b)
\* the rows the loop has gone through without an exception
RowsDone == IF pc \in {"rows", "resolved"} THEN 1..(rowIdx - 1) ELSE {}
\* the number of expenses pushed for row r
ExpensesFromRow(r) == Cardinality({i \in 1..Len(session.origin) : session.origin[i].row = r})
ExpensesFromCell(r, h) ==
  Cardinality({i \in 1..Len(session.origin) : session.origin[i] = [row |-> r, header |-> h]})
\* the value the amount aliases give for a list row, as a number
ListAmountOf(r) == parseFloat(getVal(sheet.headers, sheet.rows[r], AmountKeys))

\* C1: every categoryId of every expense of the result is the id of a category
\* of existingCategories or of a category of the returned newCategories.
C1_CategoryIdsKnown ==
  pc = "resolved" =>
    \A i \in 1..Len(result.expenses) :
      result.expenses[i].categoryId \in ExistingIds \cup NewCategoryIds

\* C1 witness: a result with an expense in an existing category and one in a
\* new category, from an oracle object that names an id no category has.
C1_Witness ==
  /\ pc = "resolved" /\ oracle = "json_object"
  /\ \E i \in 1..Len(session.log) : mappedIdOf(aiMapping, session.log[i].raw) = "zz"
  /\ \E i \in 1..Len(result.expenses) : result.expenses[i].categoryId \in ExistingIds
  /\ \E i \in 1..Len(result.expenses) : result.expenses[i].categoryId \in NewCategoryIds

\* C2 (as claimed): two resolve calls of one import whose raw tokens are equal
\* ignoring case and surrounding white space return the same category id.
C2_SameTokenSameId ==
  \A i, j \in 1..Len(session.log) :
    SameIgnoringCase(trim(session.log[i].raw), trim(session.log[j].raw))
      => session.log[i].id = session.log[j].id

\* C3: a resolve call for a token without a usable oracle entry (none, "NEW",
\* or an id no category has) returns the id of an existing category whose name
\* equals the trimmed token ignoring case, not newly created, if there is one,
\* and otherwise the id of a created category, which the result returns.
C3_NoUsableMapping(l) ==
  LET m == mappedIdOf(aiMapping, l.raw) IN m = "" \/ m = "NEW" \/ m \notin ExistingIds
C3_NameMatches(l) ==
  {k \in 1..Len(existingCategories) : SameIgnoringCase(existingCategories[k].name, trim(l.raw))}
C3_FallbackResolves ==
  aiMapping.kind = "object" =>
    \A i \in 1..Len(session.log) :
      LET l == session.log[i] IN
      C3_NoUsableMapping(l) =>
        IF C3_NameMatches(l) # {}
        THEN /\ ~l.isNew
             /\ \E k \in C3_NameMatches(l) : existingCategories[k].id = l.id
        ELSE /\ l.isNew
             /\ l.id \in CreatedIds /\ l.id \notin ExistingIds
             /\ pc = "resolved" => l.id \in NewCategoryIds

\* C3 witness: the oracle returned an empty map, one token fell back to the
\* existing category of its name and another to a new category.
C3_Witness ==
  /\ pc = "resolved" /\ oracle = "empty_text" /\ aiMapping = EmptyObject
  /\ \E i \in 1..Len(session.log) : session.log[i].via = "strict"
  /\ \E i \in 1..Len(session.log) : session.log[i].via = "minted"

\* C4 (as claimed): in List mode a row gives exactly one expense if its amount
\* is numeric and > 0 and none if it is <= 0, non-numeric or absent.
C4_PositiveAmountRows ==
  ~isMatrixMode =>
    /\ \A r \in RowsDone :
         ExpensesFromRow(r) = IF ~ListAmountOf(r).nan /\ ListAmountOf(r).v > 0 THEN 1 ELSE 0
    /\ pc = "resolved" =>
         Len(result.expenses) =
           Cardinality({r \in 1..Len(sheet.rows) : ~ListAmountOf(r).nan /\ ListAmountOf(r).v > 0})

\* C4 (amended): in List mode a row gives exactly one expense if its amount
\* parses to a number other than 0, negative numbers included, and none if it
\* parses to 0, does not parse or is absent; the result has as many expenses
\* as there are rows whose amount parses to a number other than 0.
C4_NonZeroAmountRows ==
  ~isMatrixMode =>
    /\ \A r \in RowsDone :
         ExpensesFromRow(r) = IF ~ListAmountOf(r).nan /\ ListAmountOf(r).v # 0 THEN 1 ELSE 0
    /\ pc = "resolved" =>
         Len(result.expenses) =
           Cardinality({r \in 1..Len(sheet.rows) : ~ListAmountOf(r).nan /\ ListAmountOf(r).v # 0})

\* C4 witness: a List-mode result in which a row with a negative amount gave
\* an expense and another row gave none.
C4_Witness ==
  /\ pc = "resolved" /\ ~isMatrixMode
  /\ \E r \in 1..Len(sheet.rows) : ListAmountOf(r).v < 0 /\ ExpensesFromRow(r) = 1
  /\ \E r \in 1..Len(sheet.rows) : ExpensesFromRow(r) = 0
\* the value under a category header of a matrix row, as the amount of line 173
MatrixAmountOf(r, h) == matrixAmount(RowGet(sheet.headers, sheet.rows[r], h))
\* the values that must not give an expense: zero or unparseable in List mode,
\* zero, negative or unparseable in a matrix cell
C5_ListValueInvalid(r) == ListAmountOf(r).nan \/ ListAmountOf(r).v = 0
C5_CellValueInvalid(r, h) == MatrixAmountOf(r, h).nan \/ MatrixAmountOf(r, h).v <= 0
CategoryHeaders == {uniqueRawCategories[i] : i \in 1..Len(uniqueRawCategories)}

\* C5: every expense has amount > 0 in both modes; a value that is zero,
\* unparseable or, in a matrix cell, negative gives no expense, and no
\* exception leaves a row all of whose values are of that kind.
C5_AmountsPositive ==
  /\ \A i \in 1..Len(session.expenses) : session.expenses[i].amount > 0
  /\ \A i \in 1..Len(result.expenses) : result.expenses[i].amount > 0
  /\ \A r \in RowsDone :
       IF isMatrixMode
       THEN \A h \in CategoryHeaders : C5_CellValueInvalid(r, h) => ExpensesFromCell(r, h) = 0
       ELSE C5_ListValueInvalid(r) => ExpensesFromRow(r) = 0
  /\ session.threw =>
       IF isMatrixMode
       THEN \E h \in CategoryHeaders : ~C5_CellValueInvalid(rowIdx, h)
       ELSE ~C5_ListValueInvalid(rowIdx)

\* C5 witness: a Matrix-mode result with an expense, from a sheet in which a
\* row that did not fail holds a negative and an unparseable cell.
C5_Witness ==
  /\ pc = "resolved" /\ isMatrixMode /\ Len(result.expenses) > 0
  /\ \E r \in RowsDone : \E h \in CategoryHeaders :
       ~MatrixAmountOf(r, h).nan /\ MatrixAmountOf(r, h).v < 0
  /\ \E r \in RowsDone : \E h \in CategoryHeaders : MatrixAmountOf(r, h).nan

\* C6 (as claimed): whatever the oracle call does short of returning a mapping,
\* the import is not rejected and resolves with the result of an empty mapping.
C6_OracleFailureNotPropagated ==
  oracle \in OracleFailureKinds =>
    /\ pc # "rejected"
    /\ pc = "resolved" => result = importResult(existingCategories, EmptyObject, sheet)

\* C7: a readable file without data rows resolves at once with no expenses and
\* no new categories: the oracle is not called, nothing is resolved or created.
C7_EmptyInput ==
  Len(sheet.rows) = 0 =>
    /\ pc \in {"start", "resolved", "rejected"}
    /\ pc = "resolved" => result = [expenses |-> <<>>, newCategories |-> <<>>]
    /\ oracleCalls = <<>> /\ oracle = "none"
    /\ session.created = <<>> /\ session.log = <<>> /\ session.expenses = <<>>

\* C7 witness: the import of a sheet without rows has resolved.
C7_Witness == Len(sheet.rows) = 0 /\ pc = "resolved"

\* the headers C9 excludes: the date header, the seven listed words, and any
\* header containing "total"
C9_ExcludedWords == {w_total, w_final, w_subtotal, w_sum, w_notes, w_comments, w_description}
C9_Excluded(i) ==
  \/ i = dateKeyIndex(sheet.headers)
  \/ trim(toLowerCase(sheet.headers[i])) \in C9_ExcludedWords
  \/ includes(toLowerCase(sheet.headers[i]), w_total)
C9_SentTokens == UNION {{oracleCalls[c][k] : k \in 1..Len(oracleCalls[c])} : c \in 1..Len(oracleCalls)}

\* C9: in Matrix mode an excluded header is no category token: it is not sent
\* to the oracle, not resolved, and gives no expense and no new category.
C9_ExcludedHeaders ==
  (isMatrixMode /\ pc # "start") =>
    \A i \in 1..Len(sheet.headers) :
      C9_Excluded(i) =>
        LET h == trim(sheet.headers[i]) IN
        /\ h \notin CategoryHeaders
        /\ h \notin C9_SentTokens
        /\ \A k \in 1..Len(session.log) : trim(session.log[k].raw) # h
        /\ \A k \in 1..Len(session.origin) : session.origin[k].header # h
        /\ \A k \in 1..Len(session.created) : session.created[k].key # toLowerCase(h)

\* C9 witness: a Matrix-mode result with an expense, from a sheet with a
\* "Grand Total" column whose cell in a row that was not skipped is > 0.
C9_Witness ==
  /\ pc = "resolved" /\ isMatrixMode /\ Len(result.expenses) > 0
  /\ \E r \in 1..Len(sheet.rows) :
       /\ ~matrixRowSkipped(sheet.headers, sheet.rows[r])
       /\ ~MatrixAmountOf(r, h_Grand_Total).nan /\ MatrixAmountOf(r, h_Grand_Total).v > 0

\* the patterns of C8
C8_DateWords == {w_date, w_dt, w_when, w_day}
C8_AmountWords == {w_amount, w_amt, w_price, w_cost, w_debit, w_spending, w_value}
C8_Headers == {sheet.headers[i] : i \in 1..Len(sheet.headers)}

\* C8: Matrix mode is selected if and only if some header is a date word, no
\* header is an amount word (whole header, ignoring case) and there are more
\* than 2 headers; List mode otherwise.
C8_MatrixIff ==
  pc \in {"awaiting", "rows"} =>
    (isMatrixMode <=>
       /\ \E h \in C8_Headers : toLowerCase(h) \in C8_DateWords
       /\ \A h \in C8_Headers : toLowerCase(h) \notin C8_AmountWords
       /\ Len(sheet.headers) > 2)

\* C8 witness: Matrix mode was selected for a sheet of three headers.
C8_Witness == pc \in {"awaiting", "rows"} /\ isMatrixMode /\ Len(sheet.headers) = 3

\* the distinct values of the category column: String(value).trim() of every
\* truthy cell
C10_Values ==
  {trim(String(getVal(sheet.headers, sheet.rows[r], CategoryKeys))) :
     r \in {q \in 1..Len(sheet.rows) : Truthy(getVal(sheet.headers, sheet.rows[q], CategoryKeys))}}
C10_Generic == {v \in C10_Values : toLowerCase(v) \in GenericTerms}

\* C10: in List mode the description is the signal if and only if the category
\* column gives no value, or more than half of its distinct values are generic
\* terms, or it has fewer than 3 distinct values while the sheet has more than
\* 5 rows; otherwise the category column is the signal.
C10_DescriptionIff ==
  (pc \in {"awaiting", "rows"} /\ ~isMatrixMode) =>
    /\ usedSourceType \in {"description", "explicit_category"}
    /\ usedSourceType = "description" <=>
         \/ C10_Values = {}
         \/ 2 * Cardinality(C10_Generic) > Cardinality(C10_Values)
         \/ (Cardinality(C10_Values) < 3 /\ Len(sheet.rows) > 5)

\* C10 witness: the column holds only Debit and Credit over more than 5 rows
\* and the description is the signal.
C10_Witness ==
  /\ pc \in {"awaiting", "rows"} /\ ~isMatrixMode /\ Len(sheet.rows) > 5
  /\ C10_Values = {v_Debit, v_Credit}
  /\ usedSourceType = "description"

\* the raw tokens of the sheet: the trimmed values of the signal source that
\* are longer than one character
C11_Tokens == uniqueRawCategoriesOf(sheet.headers, sheet.rows)

\* C11: during one import call the oracle is invoked at most once, with the
\* call made before any row is resolved, and it is not invoked at all when
\* the sheet gives no raw token.
C11_OracleAtMostOnce ==
  /\ Len(oracleCalls) <= 1
  /\ C11_Tokens = <<>> => (oracleCalls = <<>> /\ oracle = "none" /\ pc # "awaiting")
  /\ (session.log # <<>> /\ C11_Tokens # <<>>) => Len(oracleCalls) = 1

\* C11 witness: an import that resolved several tokens has finished after
\* one oracle call.
C11_Witness ==
  /\ pc = "resolved" /\ Len(oracleCalls) = 1
  /\ Cardinality({session.log[i].raw : i \in 1..Len(session.log)}) >= 2

\* the token of row r of a List-mode sheet whose signal is the category column
C12_TokenOfRow(r) == trim(String(getVal(sheet.headers, sheet.rows[r], CategoryKeys)))
\* every row holds a token of its own: the extraction order is the row order
C12_DistinctRowTokens ==
  /\ \A r \in 1..Len(sheet.rows) : Len(C12_TokenOfRow(r)) > 1
  /\ Cardinality({C12_TokenOfRow(r) : r \in 1..Len(sheet.rows)}) = Len(sheet.rows)
C12_LocalFallbacks == {"session", "strict", "minted"}

\* C12: no batch handed to the oracle has more than 1000 tokens; a sheet of
\* more than 1000 distinct tokens has exactly its first 1000, in extraction
\* order, sent, the import is not rejected for it, and every row beyond the
\* cap that has an amount gets one expense whose category comes from the
\* local fallbacks (the name match or a created category).
C12_BatchCap ==
  /\ \A c \in 1..Len(oracleCalls) : Len(oracleCalls[c]) <= BatchLimit
  /\ (pc = "awaiting" /\ Len(sheet.rows) > BatchLimit /\ C12_DistinctRowTokens) =>
       oracleCalls = << [k \in 1..BatchLimit |-> C12_TokenOfRow(k)] >>
  /\ (pc = "rejected" /\ oracleCalls # <<>>) => oracle = "json_null"
  /\ \A r \in (BatchLimit + 1)..(rowIdx - 1) :
       (pc \in {"rows", "resolved"} /\ usedSourceType = "explicit_category"
          /\ C12_DistinctRowTokens /\ ~C5_ListValueInvalid(r)) =>
         /\ ExpensesFromRow(r) = 1
         /\ \A i \in 1..Len(session.origin) :
              session.origin[i].row = r =>
                /\ session.expenses[i].categoryId \in ExistingIds \cup CreatedIds
                /\ \E k \in 1..Len(session.log) :
                     /\ session.log[k].raw = C12_TokenOfRow(r)
                     /\ session.log[k].id = session.expenses[i].categoryId
                     /\ session.log[k].via \in C12_LocalFallbacks

\* C12 witness: a sheet of 1002 distinct tokens has resolved after an oracle
\* answer that maps the 1000 tokens sent to a category; the two tokens beyond
\* the cap went to the category of that name and to a new category.
C12_Witness ==
  /\ pc = "resolved" /\ Len(sheet.rows) = BatchLimit + 2
  /\ Len(oracleCalls) = 1 /\ Len(oracleCalls[1]) = BatchLimit
  /\ oracle = "json_object" /\ Lookup(aiMapping, C12_TokenOfRow(1)) \in ExistingIds
  /\ \E k \in 1..Len(session.log) :
       session.log[k].raw = C12_TokenOfRow(BatchLimit + 1) /\ session.log[k].via = "strict"
  /\ \E k \in 1..Len(session.log) :
       session.log[k].raw = C12_TokenOfRow(BatchLimit + 2) /\ session.log[k].via = "minted"

\* a result without the fresh ids: a category is named by its id if it
\* existed and by its place in newCategories if it is new
C13_Canon(r) ==
  LET newIds == [i \in 1..Len(r.newCategories) |-> r.newCategories[i].id] IN
  [expenses |-> [i \in 1..Len(r.expenses) |->
                   [amount |-> r.expenses[i].amount,
                    description |-> r.expenses[i].description,
                    date |-> r.expenses[i].date,
                    notes |-> r.expenses[i].notes,
                    category |-> IF r.expenses[i].categoryId \in ExistingIds
                                 THEN <<"existing", r.expenses[i].categoryId>>
                                 ELSE <<"new", FirstIndex([k \in 1..Len(newIds) |->
                                                  newIds[k] = r.expenses[i].categoryId])>>]],
   newCategories |-> [i \in 1..Len(r.newCategories) |->
                        [name |-> r.newCategories[i].name,
                         isCustom |-> r.newCategories[i].isCustom]]]
\* the call resolved with what it returns when it runs alone
C13_AsAlone(call) ==
  call.pc = "resolved" =>
    C13_Canon(call.result) = C13_Canon(importResult(existingCategories, call.aiMapping, call.sheet))
\* the session map is empty until the call's rows begin, and holds only
\* entries the call's own resolve calls created
C13_OwnMap(call) ==
  /\ (call.pc \in {"start", "awaiting"} \/ (call.pc = "rows" /\ call.rowIdx = 1)) =>
       call.session.created = <<>>
  /\ \A k \in 1..Len(call.session.created) :
       \E i \in 1..Len(call.session.log) :
         /\ call.session.log[i].via = "minted"
         /\ call.session.log[i].id = call.session.created[k].cat.id
         /\ toLowerCase(trim(call.session.log[i].raw)) = call.session.created[k].key

\* C13: of two import calls, one after the other or interleaved at their
\* waits, each has a session map of its own that starts empty, and each
\* resolves with the result it gives alone, up to the fresh ids.
C13_CallsIsolated ==
  /\ C13_AsAlone(ThisCall) /\ C13_OwnMap(ThisCall)
  /\ other.pc # "none" => (C13_AsAlone(other) /\ C13_OwnMap(other))

\* C13 witness: two calls that overlapped at the await of the oracle have
\* both resolved, each with a new category for the token "swiggy".
C13_Witness ==
  /\ other.pc = "resolved" /\ pc = "resolved" /\ other.overlapped
  /\ \E k \in 1..Len(session.created) : session.created[k].key = toLowerCase(v_Swiggy)
  /\ \E k \in 1..Len(other.session.created) : other.session.created[k].key = toLowerCase(v_Swiggy)

\* the date cell of the one row of a date sheet, and its day-first reading
C14_Text == sheet.rows[1][1].s
C14_Day == digitsValue(dayFirstParts(C14_Text)[1], 0)
C14_Month == digitsValue(dayFirstParts(C14_Text)[2], 0)
C14_Year == digitsValue(dayFirstParts(C14_Text)[3], 0)
\* D[-/]M[-/]YYYY with a month of the year and a day of that month
C14_IsDayFirst ==
  /\ sheet.rows[1][1].t = "str" /\ dayFirstParts(C14_Text) # <<>>
  /\ C14_Month \in 1..12 /\ C14_Day \in 1..daysInMonth(C14_Year, C14_Month)

\* C14 (as claimed): a date text D[-/]M[-/]YYYY with a valid day and month
\* is parsed to YYYY-MM-DD, the first number being the day and the second the
\* month.
C14_DayFirst ==
  (pc = "resolved" /\ Len(sheet.rows) = 1 /\ C14_IsDayFirst) =>
    /\ Len(result.expenses) = 1
    /\ result.expenses[1].date =
         DateText(padNat(C14_Year, 4) \o <<"-">> \o padNat(C14_Month, 2)
                  \o <<"-">> \o padNat(C14_Day, 2))

\* the three forms of a token in the priority of C15: as given, trimmed,
\* lower-cased
C15_Forms(raw) == <<raw, trim(raw), toLowerCase(trim(raw))>>
\* the forms that the mapping takes to the id of an existing category
C15_ValidForms(raw) == {k \in 1..3 : Lookup(aiMapping, C15_Forms(raw)[k]) \in ExistingIds}
C15_FirstValid(raw) == CHOOSE k \in C15_ValidForms(raw) : \A j \in C15_ValidForms(raw) : k <= j

\* C15 (as claimed): a resolve call whose token has a form (as given, trimmed,
\* lower-cased) mapped to the id of an existing category returns the id of
\* the first such form, not newly created, whatever the other forms map to.
C15_FirstValidFormWins ==
  aiMapping.kind = "object" =>
    \A i \in 1..Len(session.log) :
      LET raw == session.log[i].raw IN
      C15_ValidForms(raw) # {} =>
        /\ ~session.log[i].isNew
        /\ session.log[i].id = Lookup(aiMapping, C15_Forms(raw)[C15_FirstValid(raw)])

\* the mapping without the entry of key k
C16_Without(k) ==
  JsonObject([x \in (DOMAIN aiMapping.entries) \ {k} |-> aiMapping.entries[x]])
\* the entries of the token's forms whose value is neither "NEW" nor the id
\* of an existing category
C16_UnusableKeys(raw) ==
  {k \in FormsOf(raw) \cap DOMAIN aiMapping.entries :
     aiMapping.entries[k] # "NEW" /\ aiMapping.entries[k] \notin ExistingIds}

\* C16 (as claimed): the first resolve call of an import, for a token with an
\* oracle entry whose value is neither "NEW" nor the id of an existing
\* category, returns what it returns with that entry removed, and does not
\* return the entry's value as the category id (a category created in both
\* cases is the same result, whatever its fresh id).
C16_UnusableAsAbsent ==
  (aiMapping.kind = "object" /\ Len(session.log) = 1) =>
    LET l == session.log[1] IN
    \A k \in C16_UnusableKeys(l.raw) :
      LET r == resolveCategory(existingCategories, C16_Without(k), <<>>, 0, l.raw)
      IN /\ l.id # aiMapping.entries[k]
         /\ l.isNew = r.isNew /\ l.via = r.via
         /\ r.via # "minted" => l.id = r.id

\* the key of a token in the session map (line 124)
C17_Key(raw) == toLowerCase(trim(raw))
C17_EntriesOf(key) == {k \in 1..Len(session.created) : session.created[k].key = key}
\* C17 (as claimed): within one import call the session map has exactly one
\* entry for every lower-cased trimmed token that created a category, a later
\* resolve of such a token returns the id of that category with isNew = true
\* and creates nothing, and the returned newCategories holds no two categories
\* created for the same lower-cased token.
C17_OneCategoryPerToken ==
  /\ \A i \in 1..Len(session.log) :
       session.log[i].via = "minted" =>
         /\ Cardinality(C17_EntriesOf(C17_Key(session.log[i].raw))) = 1
         /\ \A j \in (i + 1)..Len(session.log) :
              C17_Key(session.log[j].raw) = C17_Key(session.log[i].raw) =>
                /\ session.log[j].id = session.log[i].id
                /\ session.log[j].isNew
                /\ session.log[j].via # "minted"
  /\ \A k \in 1..Len(session.created) : Cardinality(C17_EntriesOf(session.created[k].key)) = 1
  /\ pc = "resolved" =>
       /\ Len(result.newCategories) = Len(session.created)
       /\ \A k \in 1..Len(session.created) : result.newCategories[k] = session.created[k].cat

\* the expenses pushed for row r, as indices into the session's expenses
C18_ExpensesOf(r) == {i \in 1..Len(session.origin) : session.origin[i].row = r}
\* C18: in List mode a row the loop has gone through whose amount parses to
\* a number a other than 0, positive or negative, has pushed exactly one
\* expense, and the amount of that expense is |a|: -200 gives 200.
C18_SignDiscarded ==
  ~isMatrixMode =>
    \A r \in RowsDone :
      LET a == ListAmountOf(r) IN
      (~a.nan /\ a.v # 0) =>
        /\ Cardinality(C18_ExpensesOf(r)) = 1
        /\ \A i \in C18_ExpensesOf(r) :
             /\ session.expenses[i].amount = (IF a.v < 0 THEN 0 - a.v ELSE a.v)
             /\ session.expenses[i].amount > 0

\* C18 witness: a List-mode result with a row of amount -200 whose expense
\* has amount 200, and a row of positive amount whose expense has that amount.
C18_Witness ==
  /\ pc = "resolved" /\ ~isMatrixMode
  /\ \E r \in 1..Len(sheet.rows) :
       /\ ListAmountOf(r) = Num(0 - 200)
       /\ \E i \in C18_ExpensesOf(r) : result.expenses[i].amount = 200
  /\ \E r \in 1..Len(sheet.rows) :
       /\ ~ListAmountOf(r).nan /\ ListAmountOf(r).v > 0
       /\ \E i \in C18_ExpensesOf(r) : result.expenses[i].amount = ListAmountOf(r).v

\* a cell that holds something: not the empty string of an empty cell
C19_Populated(c) == c.t = "num" \/ (c.t = "str" /\ c.s # <<>>)
\* the column of an alias in a row: the first header equal to it ignoring case
C19_Column(headers, key) ==
  FirstIndex([j \in 1..Len(headers) |-> toLowerCase(headers[j]) = toLowerCase(key)])
\* the aliases of a list, by position, whose column is populated in the row
C19_PopulatedAliases(headers, row, keys) ==
  {k \in 1..Len(keys) : /\ C19_Column(headers, keys[k]) # 0
                         /\ C19_Populated(row[C19_Column(headers, keys[k])])}
\* the cell of the first alias, in the listed order, whose column is populated
C19_FirstPopulated(headers, row, keys) ==
  LET P == C19_PopulatedAliases(headers, row, keys)
      k == CHOOSE k \in P : \A j \in P : k <= j
  IN row[C19_Column(headers, keys[k])]
C19_AliasLists == {AmountKeys, DescriptionKeys, DateKeys, NotesKeys, CategoryKeys}
\* C19 (as claimed): for every List-mode row the loop has gone through and
\* every alias list of which some column is populated in the row, the lookup
\* gives the cell of the first alias, in the listed order, whose column is
\* populated; and a row whose first populated amount alias parses to a
\* number other than 0 has pushed its expense, with that amount.
C19_FirstPopulatedAlias ==
  ~isMatrixMode =>
    \A r \in RowsDone :
      LET row == sheet.rows[r] IN
      /\ \A keys \in C19_AliasLists :
           C19_PopulatedAliases(sheet.headers, row, keys) # {} =>
             getVal(sheet.headers, row, keys) = C19_FirstPopulated(sheet.headers, row, keys)
      /\ C19_PopulatedAliases(sheet.headers, row, AmountKeys) # {} =>
           LET a == parseFloat(C19_FirstPopulated(sheet.headers, row, AmountKeys)) IN
           (~a.nan /\ a.v # 0) =>
             \E i \in 1..Len(session.origin) :
               /\ session.origin[i].row = r
               /\ session.expenses[i].amount = MathAbs(a.v)

\* what a List-mode row holds before the category is resolved: the
\* description of line 202 and the token of the category column
C20_Description(r) ==
  LET descVal == getVal(sheet.headers, sheet.rows[r], DescriptionKeys)
  IN IF Truthy(descVal) THEN String(descVal) ELSE l_Imported_Expense
C20_Token(r) == String(getVal(sheet.headers, sheet.rows[r], CategoryKeys))
\* the four conditions, for the expense i pushed for row r
C20_Conditions(r, i) ==
  /\ usedSourceType = "explicit_category"
  /\ session.expenses[i].categoryId \in ExistingIds
  /\ ~SameIgnoringCase(nameOfId(existingCategories, session.expenses[i].categoryId),
                       trim(C20_Token(r)))
  /\ ~includes(toLowerCase(C20_Description(r)), toLowerCase(C20_Token(r)))
\* C20 (as claimed): in List mode the description of the expense of a row is
\* the row's description followed by the raw category token in parentheses
\* if the category column is the signal, the token resolved to a category of
\* existingCategories whose name differs from the token ignoring case, and
\* the description does not contain the token ignoring case; in every other
\* case, and always when the description is the signal, it is the row's
\* description unchanged.
C20_AppendIff ==
  ~isMatrixMode =>
    \A i \in 1..Len(session.origin) :
      LET r == session.origin[i].row IN
      session.expenses[i].description =
        IF C20_Conditions(r, i)
        THEN C20_Description(r) \o l_open \o C20_Token(r) \o l_close
        ELSE C20_Description(r)

\* the rows of a List sheet with a parseable non-zero amount and an empty
\* category cell
C21_NoToken(r) ==
  /\ ~ListAmountOf(r).nan /\ ListAmountOf(r).v # 0
  /\ ~Truthy(getVal(sheet.headers, sheet.rows[r], CategoryKeys))
\* what resolveCategory('Others') returns in the session
C21_ResolvedOthers ==
  resolveCategory(existingCategories, aiMapping, session.created, session.uuid, l_Others)
\* C21 (as claimed): in List mode with the category column as the source, the
\* expense of a row with a valid amount and an empty category cell has the
\* category id that resolveCategory('Others') returns in the session, also
\* when the oracle has mapped 'Others' to another existing category.
C21_OthersThroughResolver ==
  (~isMatrixMode /\ usedSourceType = "explicit_category" /\ aiMapping.kind = "object") =>
    \A i \in 1..Len(session.origin) :
      C21_NoToken(session.origin[i].row) =>
        /\ C21_ResolvedOthers.via # "minted"
        /\ session.expenses[i].categoryId = C21_ResolvedOthers.id

\* the description of a List-mode row as line 202 leaves it, as a cell
C22_DescriptionCell(r) ==
  LET descVal == getVal(sheet.headers, sheet.rows[r], DescriptionKeys)
  IN IF Truthy(descVal) THEN descVal ELSE StrCell(l_Imported_Expense)
\* the token of a row: the category cell when detection chose the category
\* column, the description otherwise
C22_TokenCell(r) ==
  IF usedSourceType = "explicit_category"
  THEN getVal(sheet.headers, sheet.rows[r], CategoryKeys)
  ELSE C22_DescriptionCell(r)
\* the expenses whose row went through the resolver, and what it was given
C22_Resolving ==
  {i \in 1..Len(session.origin) :
     \/ Truthy(C22_TokenCell(session.origin[i].row))
     \/ \A k \in 1..Len(existingCategories) : existingCategories[k].name # l_Others}
C22_RawOf(i) ==
  IF Truthy(C22_TokenCell(session.origin[i].row))
  THEN String(C22_TokenCell(session.origin[i].row)) ELSE l_Others
C22_CallOf(i) == Cardinality({j \in C22_Resolving : j <= i})
C22_HasCategoryColumn ==
  \E j \in 1..Len(sheet.headers), k \in 1..Len(CategoryKeys) :
    toLowerCase(sheet.headers[j]) = toLowerCase(CategoryKeys[k])
\* C22: in List mode the resolve calls of an import are, in order, those of
\* the rows that gave an expense, each for the row's category cell when the
\* category column is the source and for the row's description (or the
\* default 'Imported Expense') otherwise, and the expense has the id the call
\* returned; a sheet without a category column has the description as source.
C22_TokenSource ==
  (~isMatrixMode /\ pc \in {"rows", "resolved"}) =>
    /\ Len(session.log) = Cardinality(C22_Resolving)
    /\ \A i \in C22_Resolving :
         /\ session.log[C22_CallOf(i)].raw = C22_RawOf(i)
         /\ session.log[C22_CallOf(i)].id = session.expenses[i].categoryId
    /\ (sheet.rows # <<>> /\ ~C22_HasCategoryColumn) => usedSourceType = "description"

\* C22 witness: a List-mode result without a category column in which a row
\* without a description was resolved as 'Imported Expense' and another row
\* as its own description.
C22_Witness ==
  /\ pc = "resolved" /\ ~isMatrixMode /\ ~C22_HasCategoryColumn
  /\ \E i \in C22_Resolving :
       /\ ~Truthy(getVal(sheet.headers, sheet.rows[session.origin[i].row], DescriptionKeys))
       /\ session.log[C22_CallOf(i)].raw = l_Imported_Expense
  /\ \E i \in C22_Resolving :
       /\ Truthy(getVal(sheet.headers, sheet.rows[session.origin[i].row], DescriptionKeys))
       /\ session.log[C22_CallOf(i)].raw = C20_Description(session.origin[i].row)

\* the columns of a matrix that are category signals: every header except
\* the date column and the ignored ones (lines 60-66)
C23_SignalColumns ==
  {j \in 1..Len(sheet.headers) : IsMatrixCategoryHeader(sheet.headers, sheet.headers[j])}
\* the conditions under which a row and a signal column give an expense
C23_DateOk(r) ==
  LET dateVal == sheet.rows[r][dateKeyIndex(sheet.headers)]
  IN /\ Truthy(dateVal)
     /\ ~includes(toLowerCase(String(dateVal)), w_total)
     /\ ~includes(toLowerCase(String(dateVal)), w_final)
C23_CellAmount(r, j) == matrixAmount(sheet.rows[r][j])
C23_Emits(r, j) ==
  C23_DateOk(r) /\ ~C23_CellAmount(r, j).nan /\ C23_CellAmount(r, j).v > 0
\* the expenses pushed for a row and a column
C23_ExpensesOf(r, j) ==
  {i \in 1..Len(session.origin) :
     session.origin[i] = [row |-> r, header |-> trim(sheet.headers[j])]}
\* C23 (as claimed): in Matrix mode a row the loop has gone through and a
\* category-signal column have exactly one expense if the row's date cell is
\* not empty and holds neither 'total' nor 'final' and the cell of the column
\* is a number > 0, and none otherwise; that expense has the cell's value as
\* amount, the id returned by resolving the header as categoryId and the
\* notes 'Imported via Matrix'; and every expense is one of these.
C23_MatrixCells ==
  (isMatrixMode /\ pc \in {"rows", "resolved"}) =>
    /\ \A r \in RowsDone : \A j \in C23_SignalColumns :
         /\ Cardinality(C23_ExpensesOf(r, j)) = IF C23_Emits(r, j) THEN 1 ELSE 0
         /\ \A i \in C23_ExpensesOf(r, j) :
              /\ session.expenses[i].amount = C23_CellAmount(r, j).v
              /\ session.expenses[i].notes = StrCell(l_Imported_via_Matrix)
              /\ i <= Len(session.log)
              /\ session.log[i].raw = trim(sheet.headers[j])
              /\ session.log[i].id = session.expenses[i].categoryId
    /\ \A i \in 1..Len(session.origin) :
         \E j \in C23_SignalColumns : i \in C23_ExpensesOf(session.origin[i].row, j)

\* nothing has been resolved, created or emitted by the running call
C24_Untouched == session.log = <<>> /\ session.created = <<>> /\ session.expenses = <<>>
\* the oracle call of the running call, if it made one, has settled
C24_OracleSettled == Len(oracleCalls) = 1 => oracle # "none"
\* C24: a call makes at most one oracle call; until that call has settled,
\* with a mapping or with a failure, the call has resolved no token, created
\* no category and emitted no expense; and once the row loop has started it
\* is not suspended again: every step is the call's own and either takes the
\* loop to the next row or ends the call, and the loop is never past the
\* last row without ending.
C24_OracleBarrier ==
  /\ [](/\ Len(oracleCalls) <= 1
        /\ pc \in {"start", "awaiting"} => C24_Untouched
        /\ ~C24_Untouched => C24_OracleSettled
        /\ pc = "rows" => rowIdx <= Len(sheet.rows) + 1)
  /\ [][pc = "rows" =>
         /\ other' = other
         /\ \/ pc' \in {"resolved", "rejected"}
            \/ pc' = "rows" /\ rowIdx' = rowIdx + 1]_vars

\* C24 witness: a call that waited for the oracle while the other call ran,
\* and then resolved a token, created a category and emitted an expense.
C24_Witness ==
  /\ pc = "resolved" /\ Len(oracleCalls) = 1 /\ oracle # "none"
  /\ other.pc # "none" /\ other.overlapped
  /\ session.log # <<>> /\ session.created # <<>> /\ result.expenses # <<>>

\* the date value of a row: what the date aliases give in List mode, the cell
\* of the date column in Matrix mode
C25_DateOf(r) ==
  IF isMatrixMode THEN sheet.rows[r][dateKeyIndex(sheet.headers)]
  ELSE getVal(sheet.headers, sheet.rows[r], DateKeys)
\* empty or absent, or a text no date parser accepts
C25_NoDate(r) ==
  \/ ~Truthy(C25_DateOf(r))
  \/ /\ C25_DateOf(r).t = "str" /\ noDigit(C25_DateOf(r).s)
     /\ ~includes(toLowerCase(C25_DateOf(r).s), w_total)
     /\ ~includes(toLowerCase(C25_DateOf(r).s), w_final)
\* the row has a valid amount: the amount of a List row, some category cell
\* of a Matrix row
C25_AmountValid(r) ==
  IF isMatrixMode THEN \E h \in CategoryHeaders : ~C5_CellValueInvalid(r, h)
  ELSE ~C5_ListValueInvalid(r)
C25_DatedToday(r) ==
  \A i \in C18_ExpensesOf(r) : session.expenses[i].date = Today
\* C25 (as claimed): in either mode a row the loop has gone through whose
\* date is empty, absent or unparseable and whose amount is valid has its
\* expense, dated today; and no exception leaves the loop but that of a null
\* oracle answer.
C25_NoDateKeepsRow ==
  /\ \A r \in RowsDone :
       (C25_NoDate(r) /\ C25_AmountValid(r)) =>
         /\ IF isMatrixMode THEN ExpensesFromRow(r) >= 1 ELSE ExpensesFromRow(r) = 1
         /\ C25_DatedToday(r)
  /\ session.threw => aiMapping.kind = "null"

\* C25 (amended): in List mode a row the loop has gone through whose date is
\* empty, absent or unparseable and whose amount is valid has exactly one
\* expense, dated today; in Matrix mode a row whose date cell is empty has no
\* expense, whatever its cells hold; and no exception leaves the loop but
\* that of a null oracle answer.
C25_NoDateKeepsListRow ==
  /\ \A r \in RowsDone :
       IF isMatrixMode
       THEN ~Truthy(C25_DateOf(r)) => ExpensesFromRow(r) = 0
       ELSE (C25_NoDate(r) /\ C25_AmountValid(r)) =>
              ExpensesFromRow(r) = 1 /\ C25_DatedToday(r)
  /\ session.threw => aiMapping.kind = "null"

\* C25 witness: a List-mode result with an expense dated today from a row
\* without a date and another from a row whose date is an unparseable text.
C25_Witness ==
  /\ pc = "resolved" /\ ~isMatrixMode
  /\ \E r \in 1..Len(sheet.rows) :
       ~Truthy(C25_DateOf(r)) /\ ExpensesFromRow(r) = 1 /\ C25_DatedToday(r)
  /\ \E r \in 1..Len(sheet.rows) :
       Truthy(C25_DateOf(r)) /\ C25_NoDate(r) /\ ExpensesFromRow(r) = 1 /\ C25_DatedToday(r)

\* C26: every category the call has created is the category of an expense it
\* has emitted, at every row boundary and in the result: each category of
\* the returned newCategories is the categoryId of an expense of the result.
C26_NewCategoriesUsed ==
  /\ ~session.threw =>
       \A k \in 1..Len(session.created) :
         \E i \in 1..Len(session.expenses) :
           session.expenses[i].categoryId = session.created[k].cat.id
  /\ pc = "resolved" =>
       \A k \in 1..Len(result.newCategories) :
         \E i \in 1..Len(result.expenses) :
           result.expenses[i].categoryId = result.newCategories[k].id

\* C26 witness: a Matrix-mode result with a new category, from a sheet in
\* which a row was skipped and a row that was not skipped holds a cell that
\* gave no expense.
C26_Witness ==
  /\ pc = "resolved" /\ isMatrixMode /\ Len(result.newCategories) > 0
  /\ \E r \in 1..Len(sheet.rows) : matrixRowSkipped(sheet.headers, sheet.rows[r])
  /\ \E r \in 1..Len(sheet.rows) :
       /\ ~matrixRowSkipped(sheet.headers, sheet.rows[r])
       /\ \E h \in CategoryHeaders : C5_CellValueInvalid(r, h) /\ ExpensesFromCell(r, h) = 0

\* the position of a category header in the order the matrix loop takes them
C27_HeaderIndex(h) ==
  FirstIndex([k \in 1..Len(uniqueRawCategories) |-> uniqueRawCategories[k] = h])
\* the expense pushed at i comes from an earlier place of the sheet than the
\* one pushed at j
C27_Before(i, j) ==
  \/ session.origin[i].row < session.origin[j].row
  \/ /\ isMatrixMode
     /\ session.origin[i].row = session.origin[j].row
     /\ C27_HeaderIndex(session.origin[i].header) < C27_HeaderIndex(session.origin[j].header)
\* C27: the expenses are in the order of the source: in List mode by row, in
\* Matrix mode by row and, within a row, by the order of the category
\* headers; and the result returns them in that order.
C27_SourceOrder ==
  /\ \A i, j \in 1..Len(session.origin) : i < j => C27_Before(i, j)
  /\ pc = "resolved" => result.expenses = session.expenses

\* C27 witness: a Matrix-mode result with two expenses of one row and an
\* expense of a later row.
C27_Witness ==
  /\ pc = "resolved" /\ isMatrixMode /\ Len(result.expenses) >= 3
  /\ \E i, j \in 1..Len(session.origin) :
       /\ i < j /\ session.origin[i].row = session.origin[j].row
       /\ session.origin[i].header # session.origin[j].header
  /\ \E i, j \in 1..Len(session.origin) : session.origin[i].row < session.origin[j].row

\* C28 (as claimed): whatever the order in which the processFile calls of the
\* dialog start and settle, every confirmation hands onImport expenses and
\* new categories that come from one and the same file.
C28_SameFileConfirmed ==
  \A k \in 1..Len(modal.imported) :
    \A i \in 1..Len(modal.imported[k].expenses) :
      \A j \in 1..Len(modal.imported[k].newCategories) :
        modal.imported[k].expenses[i].file = modal.imported[k].newCategories[j].file

C30_SecondDone == app.round = 1 /\ pc = "resolved" /\ aiMapping = EmptyObject
C30_SameCategory ==
  \A i \in 1..Len(session.log) : \A j \in 1..Len(app.first.log) :
    session.log[i].raw = app.first.log[j].raw => session.log[i].id = app.first.log[j].id
C30_ReimportIdempotent ==
  C30_SecondDone => result.newCategories = <<>> /\ C30_SameCategory
====
